---------------------------- MODULE Spec2Model ----------------------------
(***************************************************************************)
(* A model of the decision-and-backtest core of enfralyss/apostacion:      *)
(*   src/src/backtesting/backtest_engine.py   BacktestEngine               *)
(*   src/src/betting/pick_selector.py         PickSelector                 *)
(*   src/src/betting/parlay_builder.py        ParlayBuilder                *)
(*   src/src/betting/stake_calculator.py      StakeCalculator              *)
(*   src/src/betting/stake_calculator_improved.py  StakeCalculator         *)
(*   src/src/utils/database.py                BettingDatabase (settlement) *)
(*   src/src/utils/api_key_manager.py         APIKeyManager                *)
(*                                                                         *)
(* Numbers.  The program computes with Python floats.  The model computes  *)
(* with exact rationals [n |-> numerator, d |-> denominator], kept in      *)
(* lowest terms with d > 0, so that two equal numbers are equal records.   *)
(* The rounding of IEEE-754 arithmetic is not modelled; round(x, 2) is     *)
(* modelled as rounding of the exact value to cents, ties to even.         *)
(***************************************************************************)
EXTENDS Integers, Sequences, FiniteSets

(***************************************************************************)
(* Bounds of the model.                                                    *)
(***************************************************************************)
\* rows of the historical table handed to run_backtest
MaxRows == 3

(***************************************************************************)
(* Exact rational arithmetic (the program's float operators).              *)
(***************************************************************************)
Abs(x) == IF x < 0 THEN -x ELSE x

RECURSIVE GCD(_, _)
GCD(a, b) == IF b = 0 THEN a ELSE GCD(b, a % b)

LCM(a, b) == (a \div GCD(a, b)) * b

\* the rational n/d (d > 0) in lowest terms
R(n, d) == LET g == GCD(Abs(n), d) IN [n |-> n \div g, d |-> d \div g]

Zero == R(0, 1)
One == R(1, 1)

RAdd(x, y) == LET L == LCM(x.d, y.d)
              IN  R(x.n * (L \div x.d) + y.n * (L \div y.d), L)

RNeg(x) == [n |-> -x.n, d |-> x.d]

RSub(x, y) == RAdd(x, RNeg(y))

RMul(x, y) == LET g1 == GCD(Abs(x.n), y.d)
                  g2 == GCD(Abs(y.n), x.d)
              IN  R((x.n \div g1) * (y.n \div g2), (x.d \div g2) * (y.d \div g1))

\* 1/x for x # 0
RInv(x) == IF x.n > 0 THEN [n |-> x.d, d |-> x.n] ELSE [n |-> -x.d, d |-> -x.n]

RDiv(x, y) == RMul(x, RInv(y))

RLt(x, y) == LET L == LCM(x.d, y.d)
             IN  x.n * (L \div x.d) < y.n * (L \div y.d)

RLe(x, y) == ~RLt(y, x)

RMin(x, y) == IF RLt(y, x) THEN y ELSE x

RMax(x, y) == IF RLt(x, y) THEN y ELSE x

\* round(x, 2): the nearest multiple of 1/100, ties to the even cent
Round2(x) == LET c == RMul(x, R(100, 1))
                 q == c.n \div c.d
                 r == c.n % c.d
                 up == \/ 2 * r > c.d
                       \/ 2 * r = c.d /\ q % 2 = 1
             IN  R(IF up THEN q + 1 ELSE q, 100)

(***************************************************************************)
(* Optional values: <<>> is Python's None, <<v>> a value.                  *)
(***************************************************************************)
None == <<>>
Some(v) == <<v>>
IsNone(o) == o = <<>>

\* the elements of s at the strictly increasing indices idxs, in order
Pick(s, idxs) == [i \in 1..Len(idxs) |-> s[idxs[i]]]

RECURSIVE ProdOf(_, _)
\* np.prod / the multiplication loops: the product of field f over the picks
ProdOf(picks, f) ==
    IF picks = <<>> THEN One ELSE RMul(picks[1][f], ProdOf(Tail(picks), f))

RECURSIVE CombosFrom(_, _, _)
\* itertools.combinations over the indices lo..n, size k, in lexicographic order
CombosFrom(lo, n, k) ==
    IF k = 0 THEN << <<>> >>
    ELSE IF lo > n THEN <<>>
    ELSE LET with == CombosFrom(lo + 1, n, k - 1)
         IN  [i \in 1..Len(with) |-> <<lo>> \o with[i]] \o CombosFrom(lo + 1, n, k)

RECURSIVE CombosBySize(_, _, _)
\* for size in range(lo, hi + 1): for combo in combinations(picks, size)
CombosBySize(n, lo, hi) ==
    IF lo > hi THEN <<>>
    ELSE CombosFrom(1, n, lo) \o CombosBySize(n, lo + 1, hi)


(***************************************************************************)
(* State.                                                                  *)
(***************************************************************************)
VARIABLES
    \* BacktestEngine: the constructor's arguments and the engine's fields
    cfg,                \* initial_bankroll, stake_strategy and the parlay thresholds
    current_bankroll,   \* self.current_bankroll
    bets_history,       \* self.bets_history, the bet ledger
    daily_balance,      \* self.daily_balance, the snapshot series
    \* one run_backtest call
    pc,                 \* "idle" | "loop" | "done": where run_backtest stands
    historical_data,    \* the rows of the table, in the order given
    selection_criteria, \* the criteria argument
    model_fails,        \* the dates for which model.predict_multiple_matches raises
    date_order,         \* the keys of matches_by_date, in the dict's order
    idx,                \* how many keys the for loop has gone through
    result,             \* what run_backtest returned
    \* a run before this one, of another engine constructed alike
    first_run,          \* the ledger and the snapshots it left, what it returned
    cutoff,             \* the date after which the table of that run held
                        \* rows that the table of this one does not
    \* src/betting: the configuration each object was constructed with
    pick_criteria,       \* PickSelector.pick_criteria
    parlay_config,      \* ParlayBuilder.parlay_config
    bankroll_config,    \* StakeCalculator.bankroll_config
    call,               \* the method call under way on one of them: its name,
                        \* its arguments and what it returns or raises
    \* BettingDatabase: the rows of three tables of the database
    db_bets,            \* bets, by id
    db_picks,           \* picks, by id
    db_results,         \* raw_match_results: match_id -> result_label
    \* APIKeyManager
    api_keys,           \* self.keys, the pool
    current_index,      \* self.current_index
    usage_data,         \* self.usage_data: key hash -> requests_remaining
    key_call            \* the last call on the manager, and what it returned

btVars == <<cfg, current_bankroll, bets_history, daily_balance, pc,
            historical_data, selection_criteria, model_fails, date_order,
            idx, result>>

betVars == <<pick_criteria, parlay_config, bankroll_config, call>>

runVars == <<first_run, cutoff>>

dbVars == <<db_bets, db_picks, db_results>>

keyVars == <<api_keys, current_index, usage_data, key_call>>

utilVars == <<dbVars, keyVars>>

vars == <<btVars, betVars, runVars, utilVars>>

\* no call is under way
Idle == [op |-> "idle"]

\* no database is opened
NoDatabase ==
    /\ db_bets = <<>>
    /\ db_picks = <<>>
    /\ db_results = <<>>

\* no key manager is constructed
NoKeyManager ==
    /\ api_keys = <<>>
    /\ current_index = 0
    /\ usage_data = <<>>
    /\ key_call = Idle

(***************************************************************************)
(* Inputs of the backtest.                                                 *)
(***************************************************************************)
Labels == {"home_win", "away_win", "draw"}

\* dict.get(key, default)
Get(dict, key, default) == IF key \in DOMAIN dict THEN dict[key] ELSE default

\* What a historical match can be: its realized outcome ("None": unknown)
\* and the answer of the prediction collaborator for it.
Kind(k) ==
    CASE k = "right" ->    \* predicted home win at 60% and odds 2.0, and it was one
           [result_label |-> "home_win", prediction |-> "home_win",
            probabilities |-> [l \in {"home_win"} |-> R(3, 5)],
            odds |-> [l \in {"home_win"} |-> R(2, 1)]]
      [] k = "wrong" ->    \* the same prediction, and it was an away win
           [result_label |-> "away_win", prediction |-> "home_win",
            probabilities |-> [l \in {"home_win"} |-> R(3, 5)],
            odds |-> [l \in {"home_win"} |-> R(2, 1)]]
      [] k = "unknown" ->  \* predicted away win at 1/3 and odds 3.0 (no edge),
                           \* outcome unknown
           [result_label |-> "None", prediction |-> "away_win",
            probabilities |-> [l \in {"away_win"} |-> R(1, 3)],
            odds |-> [l \in {"away_win"} |-> R(3, 1)]]
      [] k = "no_odds" ->  \* predicted draw, and the odds hold no entry for it
           [result_label |-> "draw", prediction |-> "draw",
            probabilities |-> [l \in {"draw"} |-> R(3, 5)],
            odds |-> [l \in {"home_win"} |-> R(2, 1)]]

MatchKinds == {"right", "wrong", "unknown", "no_odds"}

\* The dates a row may carry.
Dates == {1, 2, 3}

\* The tables: up to MaxRows rows, each a date and a match; match_id is the
\* row's number, as in test_backtest.py (match_{i}).
Tables ==
    UNION { { [i \in 1..n |-> [date |-> ds[i], match_id |-> i, kind |-> ks[i]]] :
                ds \in [1..n -> Dates], ks \in [1..n -> MatchKinds] } :
            n \in 1..MaxRows }

\* The selection criteria handed to run_backtest; min_edge is in percent.
LaxCriteria == [min_probability |-> R(3, 10), min_edge |-> Zero]
StrictCriteria == [min_probability |-> R(1, 2), min_edge |-> R(5, 1)]

\* The constructor's arguments, and the criteria the engine is run with.
EngineConfig(s, mn, mx, crit) ==
    [initial_bankroll |-> R(1000, 1), stake_strategy |-> s,
     min_picks |-> mn, max_picks |-> mx,
     min_total_odds |-> R(2, 1), max_total_odds |-> R(8, 1),
     min_combined_probability |-> R(1, 5), criteria |-> crit]

Configs ==
    { EngineConfig("kelly", 1, 2, LaxCriteria),
      EngineConfig("kelly", 2, 3, StrictCriteria),
      EngineConfig("flat", 2, 3, LaxCriteria),
      \* min_picks > max_picks: nothing in the constructor turns it down
      EngineConfig("flat", 3, 2, LaxCriteria) }

\* The dates for which the prediction collaborator may raise.
FailingDates == {2}

(***************************************************************************)
(* BacktestEngine.                                                         *)
(***************************************************************************)
RECURSIVE DateOrder(_)
\* the keys of matches_by_date: a dict keeps its keys in insertion order, so
\* the dates stand in the order of their first row
DateOrder(rows) ==
    IF rows = <<>> THEN <<>>
    ELSE LET before == DateOrder(SubSeq(rows, 1, Len(rows) - 1))
             d == rows[Len(rows)].date
         IN  IF \E i \in 1..Len(before) : before[i] = d
             THEN before ELSE Append(before, d)

RECURSIVE DailyMatches(_, _)
\* matches_by_date[date]: the rows of that date, in the table's order
DailyMatches(rows, date) ==
    IF rows = <<>> THEN <<>>
    ELSE (IF Head(rows).date = date THEN <<Head(rows)>> ELSE <<>>)
         \o DailyMatches(Tail(rows), date)

\* model.predict_multiple_matches(daily_matches): one prediction per match
Predictions(daily) ==
    [i \in 1..Len(daily) |->
        [match_id |-> daily[i].match_id,
         prediction |-> Kind(daily[i].kind).prediction,
         probabilities |-> Kind(daily[i].kind).probabilities,
         odds |-> Kind(daily[i].kind).odds]]

RECURSIVE _select_picks(_, _)
_select_picks(predictions, criteria) ==
    IF predictions = <<>> THEN <<>>
    ELSE LET pred == Head(predictions)
             rest == _select_picks(Tail(predictions), criteria)
             predicted_prob == Get(pred.probabilities, pred.prediction, Zero)
             odds == Get(pred.odds, pred.prediction, Zero)
         IN  IF pred.prediction \notin Labels THEN rest
             ELSE IF RLe(odds, Zero) THEN rest
             ELSE LET edge == RSub(predicted_prob, RInv(odds))
                      edge_percentage == RMul(edge, R(100, 1))
                  IN  IF /\ RLe(criteria.min_probability, predicted_prob)
                         /\ RLe(criteria.min_edge, edge_percentage)
                      THEN << [match_id |-> pred.match_id,
                               prediction |-> pred.prediction,
                               predicted_probability |-> predicted_prob,
                               odds |-> odds,
                               edge |-> edge] >> \o rest
                      ELSE rest

\* the candidate _build_parlay computes for one combination
BtCandidate(combo_list) ==
    LET total_odds == ProdOf(combo_list, "odds")
        combined_prob == ProdOf(combo_list, "predicted_probability")
        implied_prob == RInv(total_odds)
        edge == RSub(combined_prob, implied_prob)
        ev == RSub(RMul(RMul(combined_prob, total_odds), R(100, 1)),
                   RMul(RSub(One, combined_prob), R(100, 1)))
    IN  [picks |-> combo_list,
         num_picks |-> Len(combo_list),
         total_odds |-> total_odds,
         combined_probability |-> combined_prob,
         edge |-> edge,
         expected_value |-> ev,
         score |-> RAdd(RMul(edge, R(3, 5)), RMul(RDiv(ev, R(100, 1)), R(2, 5)))]

\* _build_parlay with no combination ever skipped
BtNeverSkips(c, cand) == FALSE

\* _build_parlay: the two ifs that end in continue
BtSkip(c, cand) ==
    \/ RLt(cand.total_odds, c.min_total_odds)
    \/ RLt(c.max_total_odds, cand.total_odds)
    \/ RLt(cand.combined_probability, c.min_combined_probability)

RECURSIVE BtBest(_, _, _, _)
\* the two nested loops of _build_parlay over the combinations still to try
BtBest(c, picks, combos, best) ==
    IF combos = <<>> THEN best
    ELSE LET cand == BtCandidate(Pick(picks, Head(combos)))
             skip == BtSkip(c, cand)
             better == IsNone(best) \/ RLt(best[1].score, cand.score)
         IN  BtBest(c, picks, Tail(combos),
                    IF ~skip /\ better THEN Some(cand) ELSE best)

_build_parlay(c, picks) ==
    IF picks = <<>> \/ Len(picks) < c.min_picks THEN None
    ELSE LET max_size == IF c.max_picks < Len(picks) THEN c.max_picks ELSE Len(picks)
         IN  BtBest(c, picks, CombosBySize(Len(picks), c.min_picks, max_size), None)

_calculate_stake(c, bankroll, parlay) ==
    IF c.stake_strategy = "kelly"
    THEN LET edge == RSub(RMul(parlay.combined_probability, parlay.total_odds), One)
             kelly_stake == RMul(RDiv(RMul(edge, bankroll),
                                      RSub(parlay.total_odds, One)), R(1, 10))
             max_stake == RMul(bankroll, R(1, 50))
         IN  IF RLe(edge, Zero) THEN Zero ELSE RMin(kelly_stake, max_stake)
    ELSE IF c.stake_strategy = "flat" THEN RMul(bankroll, R(1, 50))
    ELSE Zero

\* match_results.get(match_id): the result_label of the day's match with that
\* id (the last one, should several rows share it), "None" when there is none
MatchResult(all_matches, match_id) ==
    LET at == {i \in 1..Len(all_matches) : all_matches[i].match_id = match_id}
    IN  IF at = {} THEN "None"
        ELSE Kind(all_matches[CHOOSE i \in at : \A j \in at : j <= i].kind).result_label

\* a leg that has no known outcome counts as won: the slip C3 guards against
PickWonUnknownWins(all_matches, pick) ==
    LET actual_outcome == MatchResult(all_matches, pick.match_id)
    IN  IF actual_outcome = "None" THEN TRUE ELSE pick.prediction = actual_outcome

\* pick_won of one leg
PickWon(all_matches, pick) ==
    LET actual_outcome == MatchResult(all_matches, pick.match_id)
    IN  IF actual_outcome = "None" THEN FALSE ELSE pick.prediction = actual_outcome

\* the profit of a won bet taken to be the whole payout
WinProfitIsPayout(stake, total_odds) == RMul(stake, total_odds)

\* payout = stake * total_odds; profit = payout - stake
WinProfit(stake, total_odds) == RSub(RMul(stake, total_odds), stake)

\* the ledger's bankroll_before taken from the bankroll already updated
BankrollBeforeStale(after, profit) == after

\* 'bankroll_before': self.current_bankroll - profit, after the update
BankrollBefore(after, profit) == RSub(after, profit)

\* _simulate_bet, the guard without its stake <= 0 half
StakeRefusedOnlyAbove(stake, bankroll) == RLt(bankroll, stake)

\* _simulate_bet: if stake <= 0 or stake > self.current_bankroll
StakeRefused(stake, bankroll) == RLe(stake, Zero) \/ RLt(bankroll, stake)

\* _simulate_bet: the engine's bankroll and ledger after the call
_simulate_bet(bankroll, bets, parlay, stake, date, all_matches) ==
    IF StakeRefused(stake, bankroll)
    THEN [current_bankroll |-> bankroll, bets_history |-> bets]
    ELSE LET all_correct ==
                 \A i \in 1..Len(parlay.picks) : PickWon(all_matches, parlay.picks[i])
             profit == IF all_correct THEN WinProfit(stake, parlay.total_odds)
                                      ELSE RNeg(stake)
             after == IF all_correct THEN RAdd(bankroll, profit)
                                     ELSE RSub(bankroll, stake)
         IN  [current_bankroll |-> after,
              bets_history |-> Append(bets,
                  [date |-> date,
                   stake |-> stake,
                   odds |-> parlay.total_odds,
                   num_picks |-> parlay.num_picks,
                   combined_probability |-> parlay.combined_probability,
                   edge |-> parlay.edge,
                   picks |-> [i \in 1..Len(parlay.picks) |->
                                [match_id |-> parlay.picks[i].match_id,
                                 prediction |-> parlay.picks[i].prediction,
                                 predicted_probability |->
                                     parlay.picks[i].predicted_probability,
                                 odds |-> parlay.picks[i].odds,
                                 edge |-> parlay.picks[i].edge,
                                 actual_outcome |->
                                     MatchResult(all_matches, parlay.picks[i].match_id),
                                 pick_won |-> PickWon(all_matches, parlay.picks[i])]],
                   result |-> IF all_correct THEN "won" ELSE "lost",
                   profit |-> profit,
                   bankroll_before |-> BankrollBefore(after, profit),
                   bankroll_after |-> after])]

\* _calculate_metrics with no bet in the ledger, without the 'error' entry
NoBetsUnmarked(bankroll) ==
    [error |-> "", total_bets |-> 0, wins |-> 0, losses |-> 0,
     win_rate |-> Zero, final_bankroll |-> bankroll, total_roi |-> Zero,
     total_profit |-> Zero, avg_odds |-> Zero, max_drawdown |-> Zero,
     sharpe_ratio |-> Zero, daily_balance |-> <<>>]

\* _calculate_metrics: what is returned when total_bets == 0
NoBets(bankroll) ==
    [error |-> "No bets placed during backtest",
     total_bets |-> 0, wins |-> 0, losses |-> 0,
     win_rate |-> Zero, final_bankroll |-> bankroll, total_roi |-> Zero,
     total_profit |-> Zero, avg_odds |-> Zero, max_drawdown |-> Zero,
     sharpe_ratio |-> Zero, daily_balance |-> <<>>]

\* balance.cummax() at snapshot k
RECURSIVE CumMax(_, _)
CumMax(snapshots, k) ==
    IF k = 1 THEN snapshots[1].balance
    ELSE RMax(CumMax(snapshots, k - 1), snapshots[k].balance)

\* the greatest of the drawdowns, in percent, of the snapshots 1..k
RECURSIVE MaxDrawdown(_, _)
MaxDrawdown(snapshots, k) ==
    IF k = 0 THEN Zero
    ELSE LET cummax == CumMax(snapshots, k)
             drawdown == RMul(RDiv(RSub(cummax, snapshots[k].balance), cummax),
                              R(100, 1))
         IN  IF k = 1 THEN drawdown
             ELSE RMax(MaxDrawdown(snapshots, k - 1), drawdown)

\* _calculate_metrics, the counts, the money and the drawdown of the report;
\* avg_odds, sharpe_ratio and calmar_ratio, a mean, a standard deviation
\* with a square root and a quotient of the others, are left out of the
\* report of a run with bets
_calculate_metrics(c, bankroll, bets, snapshots) ==
    LET total_bets == Len(bets)
        wins == Cardinality({i \in 1..Len(bets) : bets[i].result = "won"})
        losses == Cardinality({i \in 1..Len(bets) : bets[i].result = "lost"})
        total_profit == RSub(bankroll, c.initial_bankroll)
    IN  IF total_bets = 0
        THEN NoBets(bankroll)
        ELSE [error |-> "", total_bets |-> total_bets,
              wins |-> wins, losses |-> losses,
              win_rate |-> RMul(R(wins, total_bets), R(100, 1)),
              final_bankroll |-> bankroll,
              initial_bankroll |-> c.initial_bankroll,
              total_profit |-> total_profit,
              total_roi |-> IF RLt(Zero, c.initial_bankroll)
                            THEN RMul(RDiv(total_profit, c.initial_bankroll),
                                      R(100, 1))
                            ELSE Zero,
              max_drawdown |-> MaxDrawdown(snapshots, Len(snapshots)),
              daily_balance |-> snapshots]

(***************************************************************************)
(* Actions of the backtest.                                                *)
(***************************************************************************)
Init ==
    /\ cfg \in Configs
    /\ current_bankroll = cfg.initial_bankroll
    /\ bets_history = <<>>
    /\ daily_balance = <<>>
    /\ pc = "idle"
    /\ historical_data = <<>>
    /\ selection_criteria = [min_probability |-> Zero, min_edge |-> Zero]
    /\ model_fails = {}
    /\ date_order = <<>>
    /\ idx = 0
    /\ result = None
    /\ first_run = None
    /\ cutoff = None
    /\ NoDatabase
    /\ NoKeyManager
    /\ pick_criteria = None
    /\ parlay_config = None
    /\ bankroll_config = None
    /\ call = None

\* run_backtest up to the for loop: the table is grouped by date
RunBacktest ==
    /\ pc = "idle"
    /\ \E rows \in Tables :
         /\ historical_data' = rows
         /\ date_order' = DateOrder(rows)
         /\ \E fails \in SUBSET (FailingDates \cap
                                   {rows[i].date : i \in 1..Len(rows)}) :
              model_fails' = fails
    /\ selection_criteria' = cfg.criteria
    /\ idx' = 0
    /\ pc' = "loop"
    /\ UNCHANGED <<cfg, current_bankroll, bets_history, daily_balance, result,
                   betVars, runVars, utilVars>>

\* run_backtest on a table without a 'date' column
RunBacktestNoDate ==
    /\ pc = "idle"
    /\ result' = Some([error |-> "Missing date column in historical data"])
    /\ pc' = "done"
    /\ UNCHANGED <<cfg, current_bankroll, bets_history, daily_balance,
                   historical_data, selection_criteria, model_fails,
                   date_order, idx,
                   betVars, runVars, utilVars>>

\* one pass of the for loop in which the prediction raises: continue
PeriodPredictFails ==
    /\ pc = "loop"
    /\ idx < Len(date_order)
    /\ date_order[idx + 1] \in model_fails
    /\ idx' = idx + 1
    /\ UNCHANGED <<cfg, current_bankroll, bets_history, daily_balance, pc,
                   historical_data, selection_criteria, model_fails,
                   date_order, result,
                   betVars, runVars, utilVars>>

\* the engine after steps 2 to 5 of one pass of the for loop
PeriodBet(c, bankroll, bets, criteria, date, daily_matches) ==
    LET picks == _select_picks(Predictions(daily_matches), criteria)
        parlay == IF Len(picks) >= c.min_picks THEN _build_parlay(c, picks) ELSE None
    IN  IF IsNone(parlay)
        THEN [current_bankroll |-> bankroll, bets_history |-> bets]
        ELSE _simulate_bet(bankroll, bets, parlay[1],
                           _calculate_stake(c, bankroll, parlay[1]),
                           date, daily_matches)

\* one pass of the for loop
\* the balance of the snapshot, taken before the bet of the period
BalanceBeforeBet(before, after) == before

\* the balance of the snapshot: self.current_bankroll, read after the bet
BalanceOfSnapshot(before, after) == after

Period ==
    /\ pc = "loop"
    /\ idx < Len(date_order)
    /\ date_order[idx + 1] \notin model_fails
    /\ \E after \in {PeriodBet(cfg, current_bankroll, bets_history,
                                selection_criteria, date_order[idx + 1],
                                DailyMatches(historical_data, date_order[idx + 1]))} :
           /\ current_bankroll' = after.current_bankroll
           /\ bets_history' = after.bets_history
           /\ daily_balance' = Append(daily_balance,
                  [date |-> date_order[idx + 1],
                   balance |-> BalanceOfSnapshot(current_bankroll,
                                                 after.current_bankroll)])
    /\ idx' = idx + 1
    /\ UNCHANGED <<cfg, pc, historical_data, selection_criteria, model_fails,
                   date_order, result,
                   betVars, runVars, utilVars>>

\* the loop is over: return self._calculate_metrics()
Finish ==
    /\ pc = "loop"
    /\ idx = Len(date_order)
    /\ result' = Some(_calculate_metrics(cfg, current_bankroll, bets_history,
                                          daily_balance))
    /\ pc' = "done"
    /\ UNCHANGED <<cfg, current_bankroll, bets_history, daily_balance,
                   historical_data, selection_criteria, model_fails,
                   date_order, idx,
                   betVars, runVars, utilVars>>

Next == RunBacktest \/ RunBacktestNoDate \/ PeriodPredictFails \/ Period \/ Finish

Spec == Init /\ [][Next]_vars

(***************************************************************************)
(* Two runs: after the run of one engine, another engine is constructed    *)
(* with the same arguments and run over the same table, with the same      *)
(* answers of the model, as test_backtest.py and backtest_app.py do for    *)
(* each of their runs.                                                     *)
(***************************************************************************)
\* the fields of an engine that __init__ has constructed
BacktestEngineSpent(c) ==
    [current_bankroll |-> Zero, bets_history |-> <<>>, daily_balance |-> <<>>]

BacktestEngine(c) ==
    [current_bankroll |-> c.initial_bankroll,
     bets_history |-> <<>>,
     daily_balance |-> <<>>]

\* engine = BacktestEngine(...) anew, and run_backtest up to the for loop
SecondRun ==
    /\ pc = "done"
    /\ date_order # <<>>
    /\ IsNone(first_run)
    /\ first_run' = Some([bets_history |-> bets_history,
                          daily_balance |-> daily_balance,
                          result |-> result[1]])
    /\ \E engine \in {BacktestEngine(cfg)} :
           /\ current_bankroll' = engine.current_bankroll
           /\ bets_history' = engine.bets_history
           /\ daily_balance' = engine.daily_balance
    /\ result' = None
    /\ idx' = 0
    /\ pc' = "loop"
    /\ UNCHANGED <<cfg, historical_data, selection_criteria, model_fails,
                   date_order, cutoff, betVars, utilVars>>

NextTwoRuns == Next \/ SecondRun

SpecTwoRuns == Init /\ [][NextTwoRuns]_vars

(***************************************************************************)
(* Two tables: after the run of one engine over a table, another engine is *)
(* constructed with the same arguments and run over the table without its  *)
(* rows dated after d; the two tables agree on every match dated d or      *)
(* before and differ in the matches dated after d only.                    *)
(***************************************************************************)
\* the rows of the table dated d or before, in the table's order
RowsUpTo(rows, d) ==
    LET NotAfter(row) == row.date <= d
    IN  SelectSeq(rows, NotAfter)

\* the dates d of the table with rows after them
Cutoffs(rows) ==
    {d \in {rows[i].date : i \in 1..Len(rows)} :
        \E j \in 1..Len(rows) : rows[j].date > d}

\* engine = BacktestEngine(...) anew, and run_backtest over the rows dated d
\* or before, up to the for loop
RunEarlierData ==
    /\ pc = "done"
    /\ date_order # <<>>
    /\ IsNone(first_run)
    /\ first_run' = Some([bets_history |-> bets_history,
                          daily_balance |-> daily_balance,
                          result |-> result[1]])
    /\ \E d \in Cutoffs(historical_data) :
           /\ cutoff' = Some(d)
           /\ historical_data' = RowsUpTo(historical_data, d)
           /\ date_order' = DateOrder(RowsUpTo(historical_data, d))
    /\ \E engine \in {BacktestEngine(cfg)} :
           /\ current_bankroll' = engine.current_bankroll
           /\ bets_history' = engine.bets_history
           /\ daily_balance' = engine.daily_balance
    /\ result' = None
    /\ idx' = 0
    /\ pc' = "loop"
    /\ UNCHANGED <<cfg, selection_criteria, model_fails, betVars, utilVars>>

NextTwoTables == Next \/ RunEarlierData

SpecTwoTables == Init /\ [][NextTwoTables]_vars

(***************************************************************************)
(* Two calls: after its run the same engine is handed the same table, the  *)
(* same model and the same criteria once more.                             *)
(***************************************************************************)
\* the second call is made after runs of at most this many periods: the
\* bankroll is an exact fraction, and the one that the stakes of four
\* periods have compounded is beyond the integers of the model checker
MaxPeriodsAgain == 1

\* run_backtest called again on the engine, up to the for loop: no statement
\* of run_backtest assigns current_bankroll, bets_history or daily_balance
\* before the loop
RunBacktestAgain ==
    /\ pc = "done"
    /\ date_order # <<>>
    /\ Len(date_order) <= MaxPeriodsAgain
    /\ IsNone(first_run)
    /\ first_run' = Some([bets_history |-> bets_history,
                          daily_balance |-> daily_balance,
                          result |-> result[1]])
    /\ result' = None
    /\ idx' = 0
    /\ pc' = "loop"
    /\ UNCHANGED <<cfg, current_bankroll, bets_history, daily_balance,
                   historical_data, selection_criteria, model_fails,
                   date_order, cutoff, betVars, utilVars>>

NextSameEngine == Next \/ RunBacktestAgain

SpecSameEngine == Init /\ [][NextSameEngine]_vars

(***************************************************************************)
(* The backtest ledger and the order of the periods.                       *)
(***************************************************************************)
\* the rows of the table dated d that carry match id m
RowsOf(d, m) ==
    {i \in 1..Len(historical_data) :
        historical_data[i].date = d /\ historical_data[i].match_id = m}

C2_Settlement ==
    [][ Len(bets_history') = Len(bets_history) + 1 =>
          LET e == bets_history'[Len(bets_history')]
              delta == IF e.result = "won"
                       THEN RMul(e.stake, RSub(e.odds, One))
                       ELSE RNeg(e.stake)
          IN  /\ e.result \in {"won", "lost"}
              /\ current_bankroll' = RAdd(current_bankroll, delta)
              /\ e.profit = delta
              /\ e.odds = ProdOf(e.picks, "odds")
              /\ RLt(Zero, e.stake)
              /\ e.bankroll_after = RAdd(e.bankroll_before, e.profit)
              /\ e.bankroll_after = current_bankroll' ]_vars

\* the ledger holds a won bet and a lost one
C2_Witness ==
    /\ \E i \in 1..Len(bets_history) : bets_history[i].result = "won"
    /\ \E i \in 1..Len(bets_history) : bets_history[i].result = "lost"

\* C3: a bet is recorded as won exactly when every leg's match of that day
\* has a known result_label equal to the leg's prediction; a leg whose
\* outcome is unknown makes the bet a lost one.
C3_WonIffAllLegsCorrect ==
    \A i \in 1..Len(bets_history) :
        LET e == bets_history[i]
            legOk(k) ==
                \E r \in RowsOf(e.date, e.picks[k].match_id) :
                    /\ Kind(historical_data[r].kind).result_label # "None"
                    /\ Kind(historical_data[r].kind).result_label = e.picks[k].prediction
        IN  /\ (e.result = "won") <=> \A k \in 1..Len(e.picks) : legOk(k)
            /\ (e.result = "lost") <=> \E k \in 1..Len(e.picks) : ~legOk(k)

\* a lost bet all of whose legs but one of unknown outcome were right
C3_Witness ==
    \E i \in 1..Len(bets_history) :
        LET e == bets_history[i]
        IN  /\ e.result = "lost"
            /\ Len(e.picks) >= 2
            /\ \E k \in 1..Len(e.picks) :
                 /\ e.picks[k].actual_outcome = "None"
                 /\ \A j \in 1..Len(e.picks) :
                      j # k => e.picks[j].actual_outcome = e.picks[j].prediction

\* C4: the periods are gone through in strictly ascending date order, and so
\* are the snapshots, for any order of the table's rows.
C4_AscendingDates ==
    /\ \A i \in 1..(idx - 1) : date_order[i] < date_order[i + 1]
    /\ \A i \in 1..(Len(daily_balance) - 1) :
           daily_balance[i].date < daily_balance[i + 1].date

\* C5: when run_backtest has returned, every date of the table has exactly
\* one snapshot, whether or not a bet was placed or the prediction failed.
C5_OneSnapshotPerDate ==
    (pc = "done" /\ historical_data # <<>>) =>
        \A d \in {historical_data[i].date : i \in 1..Len(historical_data)} :
            Cardinality({i \in 1..Len(daily_balance) : daily_balance[i].date = d}) = 1

(***************************************************************************)
(* src/betting: the configuration file, with the sections the objects of   *)
(* src/betting read at construction.                                       *)
(***************************************************************************)
ConfigFiles ==
    {[picks |->
          [min_probability |-> R(11, 20), min_edge |-> R(1, 20),
           min_odds |-> R(3, 2), max_odds |-> R(3, 1),
           max_picks_per_league |-> 1],
      parlay |->
          [min_picks |-> 2, max_picks |-> 3, min_total_odds |-> R(2, 1),
           max_total_odds |-> R(8, 1),
           min_combined_probability |-> R(1, 5)],
      bankroll |->
          [kelly_fraction |-> R(1, 4), max_bet_percentage |-> R(5, 1),
           min_bankroll |-> R(100, 1)]],
     [picks |->
          [min_probability |-> R(1, 2), min_edge |-> Zero,
           min_odds |-> R(5, 4), max_odds |-> R(4, 1),
           max_picks_per_league |-> 2],
      parlay |->
          [min_picks |-> 1, max_picks |-> 2, min_total_odds |-> R(3, 1),
           max_total_odds |-> R(10, 1),
           min_combined_probability |-> R(3, 10)],
      bankroll |->
          [kelly_fraction |-> R(1, 2), max_bet_percentage |-> R(2, 1),
           min_bankroll |-> R(100, 1)]]}

(***************************************************************************)
(* src/betting: the stake calculators.                                     *)
(***************************************************************************)
\* the arguments the stake calculators are called with
StakeProbabilities ==
    {Zero, R(1, 2), R(51, 100), R(11, 20), R(3, 5), R(9, 10), One}
StakeOdds == {One, R(3, 2), R(2, 1), R(3, 1)}
Bankrolls == {R(10, 1), R(100, 1), R(5009, 50), R(1000, 1)}

\* StakeCalculator.kelly_criterion, the same text in both modules
kelly_criterion(probability, odds) ==
    IF RLe(probability, Zero) \/ RLe(One, probability) THEN Zero
    ELSE IF RLe(odds, One) THEN Zero
    ELSE LET b == RSub(odds, One)
             p == probability
             q == RSub(One, p)
             kelly_fraction == RDiv(RSub(RMul(b, p), q), b)
         IN  IF RLe(kelly_fraction, Zero) THEN Zero ELSE kelly_fraction

\* stake_calculator.StakeCalculator.calculate_kelly_stake
calculate_kelly_stake(bc, probability, odds, bankroll) ==
    LET full_kelly == kelly_criterion(probability, odds)
        fractional_kelly == RMul(full_kelly, bc.kelly_fraction)
        stake == RMul(bankroll, fractional_kelly)
        max_stake == RMul(bankroll, RDiv(bc.max_bet_percentage, R(100, 1)))
    IN  IF RLe(full_kelly, Zero) THEN Zero
        ELSE Round2(RMin(stake, max_stake))

\* calculate_kelly_stake (improved), the edge floor with <= where the code
\* has <
EdgeAtOrBelowFloor(edge) == RLe(edge, R(2, 100))

\* calculate_kelly_stake (improved), the edge floor the other way round
EdgeAboveFloor(edge) == RLt(R(2, 100), edge)

\* calculate_kelly_stake (improved): edge < 0.02
EdgeBelowFloor(edge) == RLt(edge, R(2, 100))

\* stake_calculator_improved.StakeCalculator.calculate_kelly_stake
calculate_kelly_stake_improved(bc, probability, odds, bankroll) ==
    LET edge == RSub(RMul(probability, odds), One)
        full_kelly == kelly_criterion(probability, odds)
        fractional_kelly == RMul(full_kelly, bc.kelly_fraction)
        stake == RMul(bankroll, fractional_kelly)
        max_cap_pct == RDiv(bc.max_bet_percentage, R(100, 1))
        max_stake == RMul(bankroll, max_cap_pct)
        capped == RMin(stake, max_stake)
        min_stake == RMul(bankroll, R(5, 1000))
        floored == IF RLt(capped, min_stake) /\ RLt(R(5, 100), edge)
                   THEN min_stake ELSE capped
    IN  IF EdgeBelowFloor(edge) THEN Zero
        ELSE IF RLe(full_kelly, Zero) THEN Zero
        ELSE Round2(RMax(floored, One))

\* stake_calculator.StakeCalculator.calculate_flat_stake, percentage 2.0
calculate_flat_stake(bankroll) == Round2(RMul(bankroll, R(2, 100)))

\* validate_stake: if stake > max_bet
StakeAboveMax(stake, max_bet) == RLt(max_bet, stake)

\* validate_stake: if bankroll < self.bankroll_config['min_bankroll']
BankrollBelowMin(bc, bankroll) == RLt(bankroll, bc.min_bankroll)

\* stake_calculator.StakeCalculator.validate_stake; a warning is modelled by
\* the name of the rule that gave it
validate_stake(bc, stake, bankroll) ==
    LET max_bet == RMul(bankroll, RDiv(bc.max_bet_percentage, R(100, 1)))
        exceeds == StakeAboveMax(stake, max_bet)
        adjusted_stake == IF exceeds THEN max_bet ELSE stake
        below == BankrollBelowMin(bc, bankroll)
        remaining_bankroll == RSub(bankroll, adjusted_stake)
    IN  [is_valid |-> ~below,
         warnings |->
             (IF exceeds THEN <<"exceeds max bet">> ELSE <<>>)
             \o (IF below THEN <<"below minimum">> ELSE <<>>)
             \o (IF RLt(remaining_bankroll, RMul(bc.min_bankroll, R(1, 2)))
                 THEN <<"will remain after bet">> ELSE <<>>),
         adjusted_stake |-> adjusted_stake]

\* stake_calculator.StakeCalculator.calculate_recommended_stake
calculate_recommended_stake(bc, probability, odds, bankroll, strategy) ==
    LET stake == IF strategy = "kelly"
                 THEN calculate_kelly_stake(bc, probability, odds, bankroll)
                 ELSE calculate_flat_stake(bankroll)
        validation == validate_stake(bc, stake, bankroll)
    IN  [strategy |-> strategy,
         calculated_stake |-> stake,
         recommended_stake |-> validation.adjusted_stake,
         stake_percentage |->
             IF RLt(Zero, bankroll)
             THEN RMul(RDiv(validation.adjusted_stake, bankroll), R(100, 1))
             ELSE Zero,
         is_valid |-> validation.is_valid,
         warnings |-> validation.warnings,
         potential_return |-> RMul(validation.adjusted_stake, odds),
         potential_profit |-> RMul(validation.adjusted_stake, RSub(odds, One)),
         risk_reward_ratio |-> IF RLt(Zero, stake) THEN RSub(odds, One) ELSE Zero]

\* the strategy argument: 'kelly', or anything else, which is flat
Strategies == {"kelly", "flat"}

(***************************************************************************)
(* src/betting: the pick selector.                                         *)
(***************************************************************************)
MaxPredictions == 3

\* the odds dict of a prediction: one price for the label, or no entry, which
\* is what a match without a price for the predicted outcome has
OddsDict(label, price) ==
    IF IsNone(price) THEN [l \in {} |-> Zero] ELSE [l \in {label} |-> price[1]]

\* a prediction as MatchPredictor.predict_match returns it
Prediction(match_id, sport, league, label, probability, price) ==
    [match_id |-> match_id, sport |-> sport, league |-> league,
     home_team |-> 2 * match_id - 1, away_team |-> 2 * match_id,
     match_date |-> 1, prediction |-> label,
     probabilities |-> [l \in {label} |-> probability],
     odds |-> OddsDict(label, price)]

SportLabels == {<<"soccer", "home_win">>, <<"soccer", "away_win">>,
                <<"soccer", "draw">>, <<"nba", "home_win">>,
                <<"nba", "away_win">>}
PickProbabilities == {R(1, 2), R(11, 20), R(3, 5)}
Prices == {None, Some(Zero), Some(R(5, 4)), Some(R(3, 2)), Some(R(2, 1)),
           Some(R(3, 1)), Some(R(5, 1))}

\* the predictions evaluate_pick is called with
SinglePredictions ==
    {Prediction(1, sl[1], "L1", sl[2], p, o) :
        sl \in SportLabels, p \in PickProbabilities, o \in Prices}

\* the predictions of the lists select_picks is called with: sport, league,
\* label, probability, price
PredictionShapes ==
    {<<"soccer", "L1", "home_win", R(3, 5), Some(R(2, 1))>>,
     <<"soccer", "L1", "draw", R(3, 5), Some(R(3, 1))>>,
     <<"soccer", "L1", "away_win", R(11, 20), Some(R(2, 1))>>,
     <<"nba", "L2", "away_win", R(3, 5), Some(R(2, 1))>>,
     <<"nba", "L2", "home_win", R(1, 2), Some(R(5, 4))>>,
     <<"soccer", "L2", "home_win", R(3, 5), Some(Zero)>>,
     <<"nba", "L1", "home_win", R(3, 5), None>>}

\* the max_picks argument of select_picks: None, the default, or a number
MaxPicksArgs == {None, Some(1), Some(2)}

PredictionLists ==
    UNION {{[i \in 1..n |-> Prediction(i, f[i][1], f[i][2], f[i][3], f[i][4],
                                       f[i][5])] :
                f \in [1..n -> PredictionShapes]} : n \in 0..MaxPredictions}

calculate_implied_probability(odds) == RInv(odds)

calculate_edge(predicted_prob, odds) ==
    RSub(predicted_prob, calculate_implied_probability(odds))

calculate_expected_value(predicted_prob, odds, stake) ==
    LET win_amount == RMul(stake, RSub(odds, One))
        loss_amount == stake
    IN  RSub(RMul(predicted_prob, win_amount),
             RMul(RSub(One, predicted_prob), loss_amount))

\* evaluate_pick: the key the odds and the probability are read under
OutcomeKey(sport, pred_outcome) ==
    IF sport = "soccer"
    THEN IF pred_outcome = "home_win" THEN "home_win"
         ELSE IF pred_outcome = "away_win" THEN "away_win"
         ELSE "draw"
    ELSE IF pred_outcome = "home_win" THEN "home_win" ELSE "away_win"

\* evaluate_pick: min_edge met, with > where the code has >=
MinEdgeMetStrict(c, edge) == RLt(c.min_edge, edge)

\* evaluate_pick: criteria['min_edge']
MinEdgeMet(c, edge) == RLe(c.min_edge, edge)

\* evaluate_pick: the criteria dict
Criteria(c, predicted_prob, edge, odds) ==
    [min_probability |-> RLe(c.min_probability, predicted_prob),
     min_edge |-> MinEdgeMet(c, edge),
     min_odds |-> RLe(c.min_odds, odds),
     max_odds |-> RLe(odds, c.max_odds)]

\* evaluate_pick: the reasons list, one entry per criterion not met; an
\* entry stands for the message, by the name of its criterion
Reasons(criteria) ==
    (IF ~criteria.min_probability THEN <<"min_probability">> ELSE <<>>)
    \o (IF ~criteria.min_edge THEN <<"min_edge">> ELSE <<>>)
    \o (IF ~criteria.min_odds THEN <<"min_odds">> ELSE <<>>)
    \o (IF ~criteria.max_odds THEN <<"max_odds">> ELSE <<>>)

evaluate_pick(c, prediction) ==
    LET sport == prediction.sport
        pred_outcome == prediction.prediction
        key == OutcomeKey(sport, pred_outcome)
        odds == Get(prediction.odds, key, Zero)
        predicted_prob == Get(prediction.probabilities, key, Zero)
    IN  IF odds = Zero
        THEN [has_value |-> FALSE,
              reason |-> "Odds not available for prediction"]
        ELSE LET implied_prob == calculate_implied_probability(odds)
                 edge == calculate_edge(predicted_prob, odds)
                 criteria == Criteria(c, predicted_prob, edge, odds)
                 has_value == \A k \in DOMAIN criteria : criteria[k]
                 reasons == Reasons(criteria)
             IN  [match_id |-> prediction.match_id,
                  sport |-> sport,
                  league |-> prediction.league,
                  home_team |-> prediction.home_team,
                  away_team |-> prediction.away_team,
                  match_date |-> prediction.match_date,
                  prediction |-> pred_outcome,
                  predicted_probability |-> predicted_prob,
                  odds |-> odds,
                  implied_probability |-> implied_prob,
                  edge |-> edge,
                  edge_percentage |-> RMul(edge, R(100, 1)),
                  expected_value |->
                      calculate_expected_value(predicted_prob, odds, R(100, 1)),
                  has_value |-> has_value,
                  criteria_met |-> criteria,
                  rejection_reasons |-> IF ~has_value THEN reasons ELSE <<>>]

\* select_picks, the for loop: the evaluations with value, in the order of
\* the predictions, or the KeyError of the else branch, whose message reads
\* evaluation['home_team'], a key the evaluation of a prediction without
\* odds does not have
RECURSIVE Evaluated(_, _, _, _)
Evaluated(c, predictions, i, evaluated_picks) ==
    IF i > Len(predictions)
    THEN [raised |-> "", value |-> evaluated_picks]
    ELSE LET evaluation == evaluate_pick(c, predictions[i])
         IN  IF evaluation.has_value
             THEN Evaluated(c, predictions, i + 1,
                            Append(evaluated_picks, evaluation))
             ELSE IF {"home_team", "away_team", "rejection_reasons"}
                         \subseteq DOMAIN evaluation
                  THEN Evaluated(c, predictions, i + 1, evaluated_picks)
                  ELSE [raised |-> "KeyError", value |-> <<>>]

\* list.sort(key=edge, reverse=True): stable, so picks of equal edge keep
\* the order they had
RECURSIVE SortByEdge(_)
SortByEdge(picks) ==
    IF picks = <<>> THEN <<>>
    ELSE LET n == Len(picks)
             sorted == SortByEdge(SubSeq(picks, 1, n - 1))
             x == picks[n]
             ahead == Cardinality({j \in 1..(n - 1) :
                                      RLe(x.edge, sorted[j].edge)})
         IN  SubSeq(sorted, 1, ahead) \o <<x>> \o SubSeq(sorted, ahead + 1, n - 1)

\* _diversify_by_league, the condition of the if, with <= where the code
\* has <
UnderLeagueCapOrAtIt(count, max_per_league) == count <= max_per_league

\* _diversify_by_league: league_counts[league] < max_per_league
UnderLeagueCap(count, max_per_league) == count < max_per_league

\* _diversify_by_league, the for loop from pick i on
RECURSIVE Diversify(_, _, _, _, _)
Diversify(max_per_league, picks, i, league_counts, diversified) ==
    IF i > Len(picks) THEN diversified
    ELSE LET league == picks[i].league
             count == Get(league_counts, league, 0)
         IN  IF UnderLeagueCap(count, max_per_league)
             THEN Diversify(max_per_league, picks, i + 1,
                            [l \in DOMAIN league_counts \cup {league} |->
                                IF l = league THEN count + 1
                                ELSE league_counts[l]],
                            Append(diversified, picks[i]))
             ELSE Diversify(max_per_league, picks, i + 1,
                            [l \in DOMAIN league_counts \cup {league} |->
                                IF l = league THEN count
                                ELSE league_counts[l]],
                            diversified)

_diversify_by_league(c, picks) ==
    Diversify(c.max_picks_per_league, picks, 1, [l \in {} |-> 0], <<>>)

\* select_picks; max_picks is None or a number
select_picks(c, predictions, max_picks) ==
    LET evaluated == Evaluated(c, predictions, 1, <<>>)
        diversified_picks ==
            _diversify_by_league(c, SortByEdge(evaluated.value))
    IN  IF evaluated.raised # "" THEN evaluated
        ELSE [raised |-> "",
              value |-> IF ~IsNone(max_picks) /\ max_picks[1] # 0
                           /\ Len(diversified_picks) > max_picks[1]
                        THEN SubSeq(diversified_picks, 1, max_picks[1])
                        ELSE diversified_picks]

(***************************************************************************)
(* src/betting: the parlay builder.                                        *)
(***************************************************************************)
MaxPicks == 4

\* the picks of the lists the builder and the diversifier are called with:
\* league, home team, away team, odds, predicted probability
PickShapes ==
    {<<"L1", "T1", "T2", R(2, 1), R(3, 5)>>,
     <<"L1", "T3", "T4", R(3, 2), R(4, 5)>>,
     <<"L2", "T1", "T5", R(3, 1), R(2, 5)>>,
     <<"L3", "T8", "T9", R(5, 4), R(9, 10)>>}

\* a pick, with the fields of an evaluation that the builder and the
\* diversifier read
PickOf(match_id, shape) ==
    [match_id |-> match_id, league |-> shape[1], home_team |-> shape[2],
     away_team |-> shape[3], odds |-> shape[4],
     predicted_probability |-> shape[5],
     edge |-> calculate_edge(shape[5], shape[4]), has_value |-> TRUE]

PickLists ==
    UNION {{[i \in 1..n |-> PickOf(i, f[i])] : f \in [1..n -> PickShapes]} :
              n \in 0..MaxPicks}

\* lists in which a match is listed more than once: positions 1 and 2 are
\* picks of match 1, positions 3 and 4 picks of match 2
RepeatedPickLists ==
    UNION {{[i \in 1..n |-> PickOf((i + 1) \div 2, f[i])] :
                f \in [1..n -> PickShapes]} : n \in 2..(MaxPicks - 1)}

calculate_parlay_odds(picks) == ProdOf(picks, "odds")

\* the sum of (cnt - 1) over the keys of a counter that were counted more
\* than once
RECURSIVE ExcessOfWhole(_, _)
\* the same sum with cnt where the code has cnt - 1
ExcessOfWhole(counts, keys) ==
    IF keys = {} THEN 0
    ELSE LET k == CHOOSE x \in keys : TRUE
         IN  (IF counts[k] > 1 THEN counts[k] ELSE 0)
             + ExcessOfWhole(counts, keys \ {k})

RECURSIVE ExcessOf(_, _)
ExcessOf(counts, keys) ==
    IF keys = {} THEN 0
    ELSE LET k == CHOOSE x \in keys : TRUE
         IN  (IF counts[k] > 1 THEN counts[k] - 1 ELSE 0)
             + ExcessOf(counts, keys \ {k})

correlation_factor(picks) ==
    IF picks = <<>> THEN One
    ELSE LET idxs == 1..Len(picks)
             leagues == [l \in {picks[i].league : i \in idxs} |->
                            Cardinality({i \in idxs : picks[i].league = l})]
             teams == [t \in {picks[i].home_team : i \in idxs}
                                \cup {picks[i].away_team : i \in idxs} |->
                          Cardinality({i \in idxs : picks[i].home_team = t})
                          + Cardinality({i \in idxs : picks[i].away_team = t})]
             penalty == RAdd(R(2 * ExcessOf(leagues, DOMAIN leagues), 100),
                             R(15 * ExcessOf(teams, DOMAIN teams), 1000))
         IN  RMax(R(85, 100), RSub(One, RMin(penalty, R(15, 100))))

calculate_parlay_probability(picks) ==
    RMul(ProdOf(picks, "predicted_probability"),
         correlation_factor(picks))

calculate_parlay_edge(picks) ==
    RSub(calculate_parlay_probability(picks),
         RInv(calculate_parlay_odds(picks)))

calculate_parlay_expected_value(picks, stake) ==
    LET parlay_prob == calculate_parlay_probability(picks)
        parlay_odds == calculate_parlay_odds(picks)
        win_amount == RMul(stake, RSub(parlay_odds, One))
        loss_amount == stake
    IN  RSub(RMul(parlay_prob, win_amount),
             RMul(RSub(One, parlay_prob), loss_amount))

validate_parlay(c, picks) ==
    LET num_picks == Len(picks)
        parlay_odds == calculate_parlay_odds(picks)
        parlay_prob == calculate_parlay_probability(picks)
        criteria ==
            [min_picks |-> num_picks >= c.min_picks,
             max_picks |-> num_picks <= c.max_picks,
             min_total_odds |-> RLe(c.min_total_odds, parlay_odds),
             max_total_odds |-> RLe(parlay_odds, c.max_total_odds),
             min_combined_probability |->
                 RLe(c.min_combined_probability, parlay_prob)]
    IN  [is_valid |-> \A k \in DOMAIN criteria : criteria[k],
         criteria_met |-> criteria,
         rejection_reasons |->
             (IF ~criteria.min_picks THEN <<"min_picks">> ELSE <<>>)
             \o (IF ~criteria.max_picks THEN <<"max_picks">> ELSE <<>>)
             \o (IF ~criteria.min_total_odds THEN <<"min_total_odds">> ELSE <<>>)
             \o (IF ~criteria.max_total_odds THEN <<"max_total_odds">> ELSE <<>>)
             \o (IF ~criteria.min_combined_probability
                 THEN <<"min_combined_probability">> ELSE <<>>)]

\* build_best_parlay: what a valid combination is kept as
BuilderCandidate(combo_list) ==
    LET parlay_odds == calculate_parlay_odds(combo_list)
        parlay_prob == calculate_parlay_probability(combo_list)
        parlay_edge == calculate_parlay_edge(combo_list)
        parlay_ev == calculate_parlay_expected_value(combo_list, R(100, 1))
    IN  [picks |-> combo_list,
         num_picks |-> Len(combo_list),
         total_odds |-> parlay_odds,
         combined_probability |-> parlay_prob,
         correlation_factor |-> correlation_factor(combo_list),
         edge |-> parlay_edge,
         edge_percentage |-> RMul(parlay_edge, R(100, 1)),
         expected_value |-> parlay_ev,
         score |-> RAdd(RMul(parlay_edge, R(3, 5)),
                        RMul(RDiv(parlay_ev, R(100, 1)), R(2, 5)))]

\* build_best_parlay, the comparison of the scores, the other way round
ScoreBelowBest(best_parlay, score) ==
    IsNone(best_parlay) \/ RLt(score, best_parlay[1].score)

\* build_best_parlay: score > best_score, best_score being -inf at first
ScoreAboveBest(best_parlay, score) ==
    IsNone(best_parlay) \/ RLt(best_parlay[1].score, score)

\* build_best_parlay, the two nested loops over the combinations still to
\* try, in the order itertools.combinations yields them, size by size
RECURSIVE BuilderBest(_, _, _, _)
BuilderBest(c, picks, combos, best_parlay) ==
    IF combos = <<>> THEN best_parlay
    ELSE LET combo_list == Pick(picks, Head(combos))
         IN  IF ~validate_parlay(c, combo_list).is_valid
             THEN BuilderBest(c, picks, Tail(combos), best_parlay)
             ELSE LET cand == BuilderCandidate(combo_list)
                  IN  BuilderBest(c, picks, Tail(combos),
                                  IF ScoreAboveBest(best_parlay, cand.score)
                                  THEN Some(cand) ELSE best_parlay)

build_best_parlay(c, picks) ==
    IF picks = <<>> THEN None
    ELSE LET min_picks == c.min_picks
             max_picks == IF c.max_picks < Len(picks) THEN c.max_picks
                          ELSE Len(picks)
         IN  BuilderBest(c, picks,
                         CombosBySize(Len(picks), min_picks, max_picks), None)

\* build_multiple_parlays: the picks not used yet
AvailablePicks(picks, used_picks) ==
    LET NotUsed(pick) == pick.match_id \notin used_picks
    IN  SelectSeq(picks, NotUsed)

\* build_multiple_parlays, with the used picks never marked
UsedPicksNotMarked(used_picks, parlay) == used_picks

\* build_multiple_parlays: used_picks after the picks of the parlay are added
UsedPicksAfter(used_picks, parlay) ==
    used_picks \cup {parlay.picks[i].match_id : i \in 1..Len(parlay.picks)}

\* build_multiple_parlays, the for loop with rounds still to go
RECURSIVE MultipleRounds(_, _, _, _, _)
MultipleRounds(c, picks, rounds, used_picks, parlays) ==
    IF rounds = 0 THEN parlays
    ELSE LET available_picks == AvailablePicks(picks, used_picks)
         IN  IF Len(available_picks) < c.min_picks THEN parlays
             ELSE LET parlay == build_best_parlay(c, available_picks)
                  IN  IF IsNone(parlay) THEN parlays
                      ELSE MultipleRounds(c, picks, rounds - 1,
                               UsedPicksAfter(used_picks, parlay[1]),
                               Append(parlays, parlay[1]))

build_multiple_parlays(c, picks, num_parlays) ==
    IF picks = <<>> THEN <<>>
    ELSE MultipleRounds(c, picks, num_parlays, {}, <<>>)

\* the num_parlays argument of build_multiple_parlays; 3 is the default
NumParlays == {0, 1, 2, 3}

\* the picks of the lists build_multiple_parlays is called with, three of
\* PickShapes, and the lists, with and without a match listed twice
FewPickShapes ==
    {<<"L1", "T1", "T2", R(2, 1), R(3, 5)>>,
     <<"L1", "T3", "T4", R(3, 2), R(4, 5)>>,
     <<"L2", "T1", "T5", R(3, 1), R(2, 5)>>}

FewPickLists ==
    UNION {{[i \in 1..n |-> PickOf(i, f[i])] : f \in [1..n -> FewPickShapes]}
              \cup {[i \in 1..n |-> PickOf((i + 1) \div 2, f[i])] :
                       f \in [1..n -> FewPickShapes]} : n \in 0..MaxPicks}

(***************************************************************************)
(* Calls on the objects of src/betting.                                    *)
(***************************************************************************)
\* the objects are constructed; the engine of the backtest is left out
InitBetting ==
    /\ cfg = None
    /\ current_bankroll = None
    /\ bets_history = <<>>
    /\ daily_balance = <<>>
    /\ pc = "idle"
    /\ historical_data = <<>>
    /\ selection_criteria = None
    /\ model_fails = {}
    /\ date_order = <<>>
    /\ idx = 0
    /\ result = None
    /\ first_run = None
    /\ cutoff = None
    /\ NoDatabase
    /\ NoKeyManager
    /\ \E config \in ConfigFiles :
         /\ pick_criteria = config.picks
         /\ parlay_config = config.parlay
         /\ bankroll_config = config.bankroll
    /\ call = Idle

CallKellyStake ==
    /\ call = Idle
    /\ \E probability \in StakeProbabilities, odds \in StakeOdds,
          bankroll \in Bankrolls :
         call' = [op |-> "calculate_kelly_stake",
                  module |-> "stake_calculator",
                  probability |-> probability, odds |-> odds,
                  bankroll |-> bankroll,
                  ret |-> calculate_kelly_stake(bankroll_config, probability,
                                                odds, bankroll)]
    /\ UNCHANGED <<btVars, runVars, utilVars, pick_criteria, parlay_config, bankroll_config>>

CallKellyStakeImproved ==
    /\ call = Idle
    /\ \E probability \in StakeProbabilities, odds \in StakeOdds,
          bankroll \in Bankrolls :
         call' = [op |-> "calculate_kelly_stake",
                  module |-> "stake_calculator_improved",
                  probability |-> probability, odds |-> odds,
                  bankroll |-> bankroll,
                  ret |-> calculate_kelly_stake_improved(bankroll_config,
                              probability, odds, bankroll)]
    /\ UNCHANGED <<btVars, runVars, utilVars, pick_criteria, parlay_config, bankroll_config>>

CallEvaluatePick ==
    /\ call = Idle
    /\ \E prediction \in SinglePredictions :
         call' = [op |-> "evaluate_pick", prediction |-> prediction,
                  ret |-> evaluate_pick(pick_criteria, prediction)]
    /\ UNCHANGED <<btVars, runVars, utilVars, pick_criteria, parlay_config, bankroll_config>>

CallSelectPicks ==
    /\ call = Idle
    /\ \E predictions \in PredictionLists, max_picks \in MaxPicksArgs :
         call' = [op |-> "select_picks", predictions |-> predictions,
                  max_picks |-> max_picks,
                  ret |-> select_picks(pick_criteria, predictions, max_picks)]
    /\ UNCHANGED <<btVars, runVars, utilVars, pick_criteria, parlay_config, bankroll_config>>

CallDiversifyByLeague ==
    /\ call = Idle
    /\ \E picks \in PickLists :
         call' = [op |-> "_diversify_by_league", picks |-> picks,
                  ret |-> _diversify_by_league(pick_criteria, picks)]
    /\ UNCHANGED <<btVars, runVars, utilVars, pick_criteria, parlay_config, bankroll_config>>

CallBuildBestParlay ==
    /\ call = Idle
    /\ \E picks \in PickLists \cup RepeatedPickLists :
         call' = [op |-> "build_best_parlay", picks |-> picks,
                  ret |-> build_best_parlay(parlay_config, picks)]
    /\ UNCHANGED <<btVars, runVars, utilVars, pick_criteria, parlay_config, bankroll_config>>

CallBuildMultipleParlays ==
    /\ call = Idle
    /\ \E picks \in FewPickLists, num_parlays \in NumParlays :
         call' = [op |-> "build_multiple_parlays", picks |-> picks,
                  num_parlays |-> num_parlays,
                  ret |-> build_multiple_parlays(parlay_config, picks,
                                                 num_parlays)]
    /\ UNCHANGED <<btVars, runVars, utilVars, pick_criteria, parlay_config, bankroll_config>>

\* the lists correlation_factor is called with: long enough for the penalty
\* to pass its cap
CorrelatedPickLists ==
    UNION {{[i \in 1..n |-> PickOf(i, f[i])] : f \in [1..n -> FewPickShapes]} :
              n \in 0..(MaxPicks + 1)}

CallCorrelationFactor ==
    /\ call = Idle
    /\ \E picks \in CorrelatedPickLists :
         call' = [op |-> "correlation_factor", picks |-> picks,
                  ret |-> correlation_factor(picks)]
    /\ UNCHANGED <<btVars, runVars, utilVars, pick_criteria, parlay_config, bankroll_config>>

\* the call returns to its caller
CallRecommendedStake ==
    /\ call = Idle
    /\ \E probability \in StakeProbabilities, odds \in StakeOdds,
          bankroll \in Bankrolls, strategy \in Strategies :
         call' = [op |-> "calculate_recommended_stake",
                  probability |-> probability, odds |-> odds,
                  bankroll |-> bankroll, strategy |-> strategy,
                  ret |-> calculate_recommended_stake(bankroll_config,
                              probability, odds, bankroll, strategy)]
    /\ UNCHANGED <<btVars, runVars, utilVars, pick_criteria, parlay_config, bankroll_config>>

Return ==
    /\ call # Idle
    /\ call' = Idle
    /\ UNCHANGED <<btVars, runVars, utilVars, pick_criteria, parlay_config, bankroll_config>>

NextBetting ==
    \/ CallKellyStake
    \/ CallKellyStakeImproved
    \/ CallEvaluatePick
    \/ CallSelectPicks
    \/ CallDiversifyByLeague
    \/ CallBuildBestParlay
    \/ CallBuildMultipleParlays
    \/ CallCorrelationFactor
    \/ CallRecommendedStake
    \/ Return

SpecBetting == InitBetting /\ [][NextBetting]_vars

(***************************************************************************)
(* src/utils/database.py: the settlement of the bets of the database.      *)
(* A bet is a row of bets and its picks are the rows of picks with its id. *)
(* The rows are the ones save_bet writes: the bet 'pending' by the default *)
(* of its column, the bet and its picks without a result.                  *)
(***************************************************************************)
MaxBets == 2

\* the row save_bet inserts into bets
StoredBet(stake, total_odds, bankroll_before) ==
    [stake |-> Some(stake), total_odds |-> Some(total_odds),
     bankroll_before |-> Some(bankroll_before),
     status |-> "pending", result |-> None,
     profit_loss |-> None, bankroll_after |-> None]

\* the row save_bet inserts into picks for one pick of the bet
StoredPick(bet_id, pick) ==
    [bet_id |-> bet_id, match_id |-> pick[1], prediction |-> pick[2],
     result |-> None]

\* bet_data of bot_real.py: the stake, the total odds, the bankroll before
BetData ==
    { <<R(10, 1), R(6, 1), R(1000, 1)>>, <<R(20, 1), R(5, 2), R(990, 1)>> }

\* parlay['picks']: the match and the outcome predicted, per pick
ParlayPicks ==
    { << <<"m1", "home_win">> >>,
      << <<"m1", "home_win">>, <<"m2", "draw">> >> }

\* what raw_match_results may hold: a label for some of the matches
ResultTables ==
    { t \in [{"m1", "m2"} -> {None, Some("home_win"), Some("draw")}] : TRUE }

\* the bets saved, one after the other: the bet data and the picks of each
SavedBets ==
    UNION { [1..n -> BetData \X ParlayPicks] : n \in 1..MaxBets }

\* save_bet for each of the bets: the rows of bets
RECURSIVE BetRows(_)
BetRows(saved) ==
    IF saved = <<>> THEN <<>>
    ELSE LET n == Len(saved)
             bet_data == saved[n][1]
         IN  Append(BetRows(SubSeq(saved, 1, n - 1)),
                    StoredBet(bet_data[1], bet_data[2], bet_data[3]))

\* save_bet for each of the bets: the rows of picks, the ids in the order
\* of the inserts
RECURSIVE PickRows(_)
PickRows(saved) ==
    IF saved = <<>> THEN <<>>
    ELSE LET n == Len(saved)
             its == saved[n][2]
         IN  PickRows(SubSeq(saved, 1, n - 1))
                 \o [i \in 1..Len(its) |-> StoredPick(n, its[i])]

\* final_result: 'won' | 'lost'
FinalResults == {"won", "lost"}

\* SELECT result FROM picks WHERE bet_id=?
AllResults(picks, bet_id) ==
    LET own == SelectSeq(picks, LAMBDA p : p.bet_id = bet_id)
    IN  [i \in 1..Len(own) |-> own[i].result]

\* any(r is None or r == '' for r in all_results)
pending_left(all_results) ==
    \E i \in DOMAIN all_results :
        IsNone(all_results[i]) \/ all_results[i] = Some("")

\* any(r == 'won' for r in all_results)
any_won(all_results) ==
    \E i \in DOMAIN all_results : all_results[i] = Some("won")
\* all(r == 'won' for r in all_results)
all_won(all_results) ==
    \A i \in DOMAIN all_results : all_results[i] = Some("won")

\* brow[column] or 0
OrZero(v) == IF IsNone(v) \/ v = Some(Zero) THEN Zero ELSE v[1]

\* update_bet_result: the bet is 'settled', with its result and its amounts
update_bet_result(bets, bet_id, bet_result, profit_loss, bankroll_after) ==
    IF bet_id \in DOMAIN bets
    THEN [bets EXCEPT ![bet_id].status = "settled",
                      ![bet_id].result = Some(bet_result),
                      ![bet_id].profit_loss = Some(profit_loss),
                      ![bet_id].bankroll_after = Some(bankroll_after)]
    ELSE bets

\* update_pick_result: the tables after the call.  A pick_id without a row
\* changes nothing; else the pick is marked and, when no pick of its bet is
\* left pending, the bet is settled
update_pick_result(bets, picks, pick_id, final_result) ==
    IF pick_id \notin DOMAIN picks
    THEN [bets |-> bets, picks |-> picks]
    ELSE LET bet_id == picks[pick_id].bet_id
             marked == [picks EXCEPT ![pick_id].result = Some(final_result)]
             all_results == AllResults(marked, bet_id)
         IN  IF pending_left(all_results) \/ bet_id \notin DOMAIN bets
             THEN [bets |-> bets, picks |-> marked]
             ELSE LET bet_result == IF all_won(all_results) THEN "won"
                                    ELSE "lost"
                      brow == bets[bet_id]
                      stake == OrZero(brow.stake)
                      total_odds == OrZero(brow.total_odds)
                      bankroll_before == OrZero(brow.bankroll_before)
                      profit_loss ==
                          IF bet_result = "won"
                          THEN RMul(stake, RSub(total_odds, One))
                          ELSE RNeg(stake)
                      bankroll_after == RAdd(bankroll_before, profit_loss)
                  IN  [bets |-> update_bet_result(bets, bet_id, bet_result,
                                                  profit_loss,
                                                  bankroll_after),
                       picks |-> marked]

\* resolve_pending_picks: the picks selected as pending, from the one of id
\* from on, each marked by the label of its match when there is one
RECURSIVE ResolveFrom(_, _, _, _, _)
ResolveFrom(bets, picks, results, pending, from) ==
    IF from > Len(pending) THEN [bets |-> bets, picks |-> picks]
    ELSE LET p == pending[from]
             row == results[p.match_id]
         IN  IF ~pending[from].pending \/ IsNone(row)
             THEN ResolveFrom(bets, picks, results, pending, from + 1)
             ELSE LET pick_outcome == IF row[1] = p.prediction THEN "won"
                                      ELSE "lost"
                      after == update_pick_result(bets, picks, from,
                                                  pick_outcome)
                  IN  ResolveFrom(after.bets, after.picks, results, pending,
                                  from + 1)

\* SELECT ... FROM picks WHERE result IS NULL OR result="": per id, the
\* match, the prediction and whether the row was selected
PendingPicks(picks) ==
    [i \in DOMAIN picks |->
        [match_id |-> picks[i].match_id, prediction |-> picks[i].prediction,
         pending |-> IsNone(picks[i].result) \/ picks[i].result = Some("")]]

resolve_pending_picks(bets, picks, results) ==
    ResolveFrom(bets, picks, results, PendingPicks(picks), 1)

\* a database with the bets saved and the results ingested so far; the
\* engine and the objects of src/betting are left out
InitSettlement ==
    /\ cfg = None
    /\ current_bankroll = None
    /\ bets_history = <<>>
    /\ daily_balance = <<>>
    /\ pc = "idle"
    /\ historical_data = <<>>
    /\ selection_criteria = None
    /\ model_fails = {}
    /\ date_order = <<>>
    /\ idx = 0
    /\ result = None
    /\ first_run = None
    /\ cutoff = None
    /\ pick_criteria = None
    /\ parlay_config = None
    /\ bankroll_config = None
    /\ call = Idle
    /\ NoKeyManager
    /\ \E saved \in SavedBets :
         /\ db_bets = BetRows(saved)
         /\ db_picks = PickRows(saved)
    /\ db_results \in ResultTables

\* db.update_pick_result(pick_id, final_result), for the id of a pick or an
\* id without a row
UpdatePickResult ==
    \E pick_id \in 1..(Len(db_picks) + 1), final_result \in FinalResults :
      \E after \in {update_pick_result(db_bets, db_picks, pick_id,
                                       final_result)} :
        /\ db_bets' = after.bets
        /\ db_picks' = after.picks
        /\ UNCHANGED <<btVars, betVars, runVars, keyVars, db_results>>

\* db.resolve_pending_picks()
ResolvePendingPicks ==
    \E after \in {resolve_pending_picks(db_bets, db_picks, db_results)} :
        /\ db_bets' = after.bets
        /\ db_picks' = after.picks
        /\ UNCHANGED <<btVars, betVars, runVars, keyVars, db_results>>

NextSettlement == UpdatePickResult \/ ResolvePendingPicks

SpecSettlement == InitSettlement /\ [][NextSettlement]_vars

(***************************************************************************)
(* src/utils/api_key_manager.py: the pool of API keys.  A key is the       *)
(* sequence of its characters.  A record of usage_data holds the requests  *)
(* used and remaining of a key hash and whether now >= its reset_date.     *)
(***************************************************************************)
MaxKeys == 3

\* len(key) of the keys below is 9: the hash is the first 8 characters
HashLen == 8

\* key[:8] if len(key) >= 8 else key
_get_key_hash(key) ==
    IF Len(key) >= HashLen THEN SubSeq(key, 1, HashLen) ELSE key

\* keys of ODDS_API_KEYS: two that begin with the same 8 characters, and a
\* key shorter than 8 characters
Keys ==
    { <<"a", "a", "a", "a", "a", "a", "a", "a", "1">>,
      <<"a", "a", "a", "a", "a", "a", "a", "a", "2">>,
      <<"b", "1">> }

\* self.keys: the keys of the variable, in its order; a key may be listed
\* twice
KeyPools == UNION { [1..n -> Keys] : n \in 1..MaxKeys }

\* requests_remaining as the API reports it
Remainings == {9, 10, 11, 500}

\* the record _update_key_usage leaves: the reset_date of a record it
\* creates is 30 days from now
UsageRecord(requests_remaining, reset_due) ==
    [requests_used |-> 500 - requests_remaining,
     requests_remaining |-> requests_remaining,
     reset_due |-> reset_due]

\* _update_key_usage
_update_key_usage(usage, key, requests_remaining) ==
    LET key_hash == _get_key_hash(key)
        reset_due == IF key_hash \in DOMAIN usage
                     THEN usage[key_hash].reset_due ELSE FALSE
    IN  [h \in DOMAIN usage \cup {key_hash} |->
            IF h = key_hash THEN UsageRecord(requests_remaining, reset_due)
            ELSE usage[h]]

\* _check_reset_dates: a record whose reset_date is reached is set to 500
\* remaining, its reset_date 30 days from now
_check_reset_dates(usage) ==
    [h \in DOMAIN usage |->
        IF usage[h].reset_due THEN UsageRecord(500, FALSE) ELSE usage[h]]

\* (self.current_index + 1) % len(self.keys)
rotate_key(pool, index) == (index + 1) % Len(pool)

\* remaining >= 10, a margin of one request less
HasRequestsFromTen(remaining) == remaining >= 10
\* remaining > 10
HasRequests(remaining) == remaining > 10

\* the while loop of get_current_key from the pass numbered attempts on,
\* and the fallback after it: the key returned and the index left
RECURSIVE ScanKeys(_, _, _, _)
ScanKeys(pool, usage, index, attempts) ==
    IF attempts < Len(pool)
    THEN LET key == pool[index + 1]
             key_hash == _get_key_hash(key)
         IN  IF key_hash \in DOMAIN usage
             THEN IF HasRequests(usage[key_hash].requests_remaining)
                  THEN [ret |-> key, index |-> index, attempts |-> attempts]
                  ELSE ScanKeys(pool, usage, rotate_key(pool, index),
                                attempts + 1)
             ELSE [ret |-> key, index |-> index, attempts |-> attempts]
    ELSE [ret |-> pool[index + 1], index |-> index, attempts |-> attempts]

\* a manager constructed over a non-empty pool, no usage file yet; the
\* engine, the objects of src/betting and the database are left out
InitKeys ==
    /\ cfg = None
    /\ current_bankroll = None
    /\ bets_history = <<>>
    /\ daily_balance = <<>>
    /\ pc = "idle"
    /\ historical_data = <<>>
    /\ selection_criteria = None
    /\ model_fails = {}
    /\ date_order = <<>>
    /\ idx = 0
    /\ result = None
    /\ first_run = None
    /\ cutoff = None
    /\ pick_criteria = None
    /\ parlay_config = None
    /\ bankroll_config = None
    /\ call = Idle
    /\ NoDatabase
    /\ api_keys \in KeyPools
    /\ current_index = 0
    /\ usage_data = <<>>
    /\ key_call = Idle

\* manager.update_usage(requests_remaining)
UpdateUsage ==
    \E requests_remaining \in Remainings :
        /\ usage_data' = _update_key_usage(usage_data,
                                           api_keys[current_index + 1],
                                           requests_remaining)
        /\ current_index' = IF requests_remaining < 10
                            THEN rotate_key(api_keys, current_index)
                            ELSE current_index
        /\ key_call' = [op |-> "update_usage"]
        /\ UNCHANGED <<btVars, betVars, runVars, dbVars, api_keys>>

\* manager.rotate_key()
RotateKey ==
    /\ current_index' = rotate_key(api_keys, current_index)
    /\ key_call' = [op |-> "rotate_key"]
    /\ UNCHANGED <<btVars, betVars, runVars, dbVars, api_keys, usage_data>>

\* manager.get_current_key()
GetCurrentKey ==
    \E usage \in {_check_reset_dates(usage_data)} :
      \E scan \in {ScanKeys(api_keys, usage, current_index, 0)} :
        /\ usage_data' = usage
        /\ current_index' = scan.index
        /\ key_call' = [op |-> "get_current_key", ret |-> scan.ret,
                        attempts |-> scan.attempts]
        /\ UNCHANGED <<btVars, betVars, runVars, dbVars, api_keys>>

\* time passes: datetime.now() reaches the reset_date of a record
ResetDateReached ==
    \E h \in DOMAIN usage_data :
        /\ ~usage_data[h].reset_due
        /\ usage_data' = [usage_data EXCEPT ![h].reset_due = TRUE]
        /\ UNCHANGED <<btVars, betVars, runVars, dbVars, api_keys,
                       current_index, key_call>>

NextKeys == UpdateUsage \/ RotateKey \/ GetCurrentKey \/ ResetDateReached

SpecKeys == InitKeys /\ [][NextKeys]_vars

(***************************************************************************)
(* The stake and the cap.                                                  *)
(***************************************************************************)
\* C6: for every probability, odds and positive bankroll, the stake that
\* calculate_kelly_stake returns (after the cap, the floors and the
\* rounding) is at most bankroll * max_bet_percentage / 100
C6_StakeWithinCap ==
    (call.op = "calculate_kelly_stake" /\ RLt(Zero, call.bankroll))
        => RLe(call.ret,
               RDiv(RMul(call.bankroll, bankroll_config.max_bet_percentage),
                    R(100, 1)))

(***************************************************************************)
(* The selection of the picks.                                             *)
(***************************************************************************)
\* the prediction has a price above 1 for the outcome it predicts
HasOddsAboveOne(prediction) ==
    /\ prediction.prediction \in DOMAIN prediction.odds
    /\ RLt(One, prediction.odds[prediction.prediction])

\* the criteria that odds o and probability p fail, with edge = p - 1/o
\* written as p * o - 1 = edge * o
FailedCriteria(c, p, o) ==
    {k \in {"min_probability"} : RLt(p, c.min_probability)}
    \cup {k \in {"min_edge"} :
            RLt(RSub(RMul(p, o), One), RMul(c.min_edge, o))}
    \cup {k \in {"min_odds"} : RLt(o, c.min_odds)}
    \cup {k \in {"max_odds"} : RLt(c.max_odds, o)}

\* C7: for every candidate with odds o > 1 and predicted probability p,
\* evaluate_pick computes edge = p - 1/o and accepts the pick (has_value) if
\* and only if p >= min_probability and edge >= min_edge and
\* min_odds <= o <= max_odds; the list of rejection reasons is empty exactly
\* when the pick is accepted, and otherwise has one entry per failed
\* criterion
C7_AcceptanceIff ==
    (call.op = "evaluate_pick" /\ HasOddsAboveOne(call.prediction)) =>
        LET o == call.prediction.odds[call.prediction.prediction]
            p == call.prediction.probabilities[call.prediction.prediction]
            failed == FailedCriteria(pick_criteria, p, o)
            reasons == call.ret.rejection_reasons
        IN  /\ RMul(call.ret.edge, o) = RSub(RMul(p, o), One)
            /\ call.ret.has_value <=> failed = {}
            /\ reasons = <<>> <=> call.ret.has_value
            /\ Len(reasons) = Cardinality(failed)
            /\ {reasons[i] : i \in 1..Len(reasons)} = failed

\* a pick is rejected for two reasons, min_edge being one of them
C7_Witness ==
    /\ call.op = "evaluate_pick"
    /\ HasOddsAboveOne(call.prediction)
    /\ ~call.ret.has_value
    /\ Len(call.ret.rejection_reasons) = 2
    /\ call.ret.rejection_reasons[1] = "min_edge"

\* the prediction has no price, or the price 0, for the outcome it predicts
NoOdds(prediction) ==
    \/ prediction.prediction \notin DOMAIN prediction.odds
    \/ prediction.odds[prediction.prediction] = Zero

HasOdds(prediction) == ~NoOdds(prediction)

\* C8: a prediction whose odds for the predicted outcome are missing or zero
\* is rejected and never a fault: evaluate_pick rejects it, select_picks
\* does not raise on it and leaves it out of its result, and the other
\* predictions of the call are evaluated and returned as they are without it
C8_NoOddsIsRejection ==
    /\ (call.op = "evaluate_pick" /\ NoOdds(call.prediction))
           => ~call.ret.has_value
    /\ (call.op = "select_picks"
        /\ \E i \in 1..Len(call.predictions) : NoOdds(call.predictions[i]))
           => /\ call.ret.raised = ""
              /\ \A k \in 1..Len(call.ret.value) :
                    \E i \in 1..Len(call.predictions) :
                       /\ call.predictions[i].match_id
                              = call.ret.value[k].match_id
                       /\ HasOdds(call.predictions[i])
              /\ call.ret.value
                     = select_picks(pick_criteria,
                                    SelectSeq(call.predictions, HasOdds),
                                    call.max_picks).value

\* the elements of a set of numbers, in ascending order
RECURSIVE Ascending(_)
Ascending(S) ==
    IF S = {} THEN <<>>
    ELSE LET least == CHOOSE x \in S : \A y \in S : x <= y
         IN  <<least>> \o Ascending(S \ {least})

\* the positions of the input that the diversifier is to keep: those with
\* fewer than max_per_league picks of the same league before them
KeptPositions(picks, max_per_league) ==
    {i \in 1..Len(picks) :
        Cardinality({j \in 1..(i - 1) : picks[j].league = picks[i].league})
            < max_per_league}

ValidCombinations(c, picks) ==
    {S \in SUBSET (1..Len(picks)) :
        LET combo == Pick(picks, Ascending(S))
        IN  /\ c.min_picks <= Cardinality(S)
            /\ Cardinality(S) <= c.max_picks
            /\ RLe(c.min_total_odds, calculate_parlay_odds(combo))
            /\ RLe(calculate_parlay_odds(combo), c.max_total_odds)
            /\ RLe(c.min_combined_probability,
                   calculate_parlay_probability(combo))}

\* 0.6 * edge + 0.4 * (expected_value / 100) of a combination
ScoreOf(combo) ==
    RAdd(RMul(R(6, 10), calculate_parlay_edge(combo)),
         RMul(R(4, 10),
              RDiv(calculate_parlay_expected_value(combo, R(100, 1)),
                   R(100, 1))))

\* C9: build_best_parlay returns a combination of size k, with
\* min_picks <= k <= min(max_picks, n), whose total odds are within
\* [min_total_odds, max_total_odds], whose combined probability is at least
\* min_combined_probability and whose score 0.6 * edge + 0.4 * (ev / 100) is
\* at least that of every other valid combination of the input; it returns
\* None if and only if no combination is valid
C9_BestParlay ==
    call.op = "build_best_parlay" =>
        LET valid == ValidCombinations(parlay_config, call.picks)
        IN  /\ IsNone(call.ret) <=> valid = {}
            /\ ~IsNone(call.ret) =>
                  \E S \in valid :
                     LET combo == Pick(call.picks, Ascending(S))
                     IN  /\ call.ret[1].picks = combo
                         /\ call.ret[1].num_picks = Cardinality(S)
                         /\ call.ret[1].total_odds = calculate_parlay_odds(combo)
                         /\ call.ret[1].combined_probability
                                = calculate_parlay_probability(combo)
                         /\ call.ret[1].score = ScoreOf(combo)
                         /\ \A T \in valid :
                               RLe(ScoreOf(Pick(call.picks, Ascending(T))),
                                   call.ret[1].score)

\* a parlay is returned where another valid combination scores less and a
\* combination of a size in range is not valid
C9_Witness ==
    /\ call.op = "build_best_parlay"
    /\ ~IsNone(call.ret)
    /\ \E T \in ValidCombinations(parlay_config, call.picks) :
          RLt(ScoreOf(Pick(call.picks, Ascending(T))), call.ret[1].score)
    /\ \E U \in SUBSET (1..Len(call.picks)) :
          /\ parlay_config.min_picks <= Cardinality(U)
          /\ Cardinality(U) <= parlay_config.max_picks
          /\ U \notin ValidCombinations(parlay_config, call.picks)

(***************************************************************************)
(* The legs of a parlay.                                                   *)
(***************************************************************************)
\* the picks of the list are picks of pairwise distinct matches
DistinctMatchIds(picks) ==
    \A i, j \in 1..Len(picks) :
        picks[i].match_id = picks[j].match_id => i = j

\* C11: every parlay that build_best_parlay produces has legs with pairwise
\* distinct match ids, for any list of picks handed to it
C11_DistinctLegs ==
    (call.op = "build_best_parlay" /\ ~IsNone(call.ret))
        => DistinctMatchIds(call.ret[1].picks)

\* the match ids of the legs of a parlay
LegIds(parlay) == {parlay.picks[j].match_id : j \in 1..Len(parlay.picks)}

\* the match ids of the legs of the parlays 1..k of a list of parlays
MatchIdsUsed(parlays, k) == UNION {LegIds(parlays[i]) : i \in 1..k}

\* the picks of the list whose match is not in a set of match ids
PicksOutside(picks, ids) ==
    LET Outside(pick) == pick.match_id \notin ids
    IN  SelectSeq(picks, Outside)

\* C12: build_multiple_parlays returns at most num_parlays parlays, pairwise
\* disjoint in match id; the i-th is what build_best_parlay returns for the
\* picks whose match is in none of the parlays 1..i-1; and it stops at the
\* first round with fewer than min_picks picks left or without a valid
\* parlay
C12_MultipleParlays ==
    call.op = "build_multiple_parlays" =>
        LET parlays == call.ret
            n == Len(parlays)
            Left(k) == PicksOutside(call.picks, MatchIdsUsed(parlays, k))
        IN  /\ n <= call.num_parlays
            /\ \A i, j \in 1..n :
                  i # j => LegIds(parlays[i]) \cap LegIds(parlays[j]) = {}
            /\ \A i \in 1..n :
                  /\ Len(Left(i - 1)) >= parlay_config.min_picks
                  /\ build_best_parlay(parlay_config, Left(i - 1))
                         = Some(parlays[i])
            /\ n < call.num_parlays =>
                  \/ Len(Left(n)) < parlay_config.min_picks
                  \/ IsNone(build_best_parlay(parlay_config, Left(n)))

\* two parlays are returned where three were asked for
C12_Witness ==
    /\ call.op = "build_multiple_parlays"
    /\ call.num_parlays = 3
    /\ Len(call.ret) = 2

(***************************************************************************)
(* The stake: zero, positive, monotone.                                    *)
(***************************************************************************)
\* the call is one of calculate_kelly_stake of stake_calculator_improved
ImprovedStakeCall ==
    /\ call.op = "calculate_kelly_stake"
    /\ call.module = "stake_calculator_improved"

\* edge = p * o - 1 is below the floor of 0.02
BelowEdgeFloor(p, o) == RLt(RSub(RMul(p, o), One), R(1, 50))

\* full_kelly = (b * p - q) / b, b = o - 1, q = 1 - p, is <= 0, for o > 1
FullKellyNotPositive(p, o) ==
    RLe(RSub(RMul(RSub(o, One), p), RSub(One, p)), Zero)

\* kelly_criterion takes the probability or the odds for invalid
InvalidForKelly(p, o) == RLe(p, Zero) \/ RLe(One, p) \/ RLe(o, One)

StakeAt(p) ==
    calculate_kelly_stake_improved(bankroll_config, p, call.odds,
                                   call.bankroll)

\* bankroll * max_bet_percentage / 100 for the bankroll of the call
CapOfCall ==
    RDiv(RMul(call.bankroll, bankroll_config.max_bet_percentage), R(100, 1))

\* the stake for p1 is at most the stake of the call, and the same if it
\* has reached the cap
NotAbove(p1) ==
    /\ RLe(StakeAt(p1), call.ret)
    /\ RLe(CapOfCall, StakeAt(p1)) => call.ret = StakeAt(p1)

PenaltyThousandths(picks) ==
    LET n == Len(picks)
        leagues == {picks[i].league : i \in 1..n}
        teams == {picks[i].home_team : i \in 1..n}
                     \cup {picks[i].away_team : i \in 1..n}
    IN  20 * (n - Cardinality(leagues)) + 15 * (2 * n - Cardinality(teams))

\* C15: for any list of picks correlation_factor returns a value within
\* [0.85, 1.0], equal to max(0.85, 1 - min(0.15, penalty)), the penalty
\* being 0.02 * (count - 1) summed over the leagues that appear more than
\* once plus 0.015 * (count - 1) summed over the teams that appear more than
\* once; it is exactly 1.0 when no league and no team occurs twice
C15_CorrelationFactor ==
    call.op = "correlation_factor" =>
        LET penalty == PenaltyThousandths(call.picks)
            capped == IF penalty > 150 THEN 150 ELSE penalty
        IN  /\ RLe(R(85, 100), call.ret)
            /\ RLe(call.ret, One)
            /\ call.ret = RMax(R(85, 100), R(1000 - capped, 1000))
            /\ penalty = 0 => call.ret = One

\* the penalty of the list is above its cap and the factor is 0.85
C15_Witness ==
    /\ call.op = "correlation_factor"
    /\ PenaltyThousandths(call.picks) > 150
    /\ call.ret = R(85, 100)

(***************************************************************************)
(* The periods of the backtest without a bet.                              *)
(***************************************************************************)
\* the accepted picks of the period of a date
PicksOfDate(date) ==
    _select_picks(Predictions(DailyMatches(historical_data, date)),
                  selection_criteria)

\* the parlay of the period of a date, None when there are fewer than
\* min_picks accepted picks or no combination is valid
ParlayOfDate(date) ==
    IF Len(PicksOfDate(date)) >= cfg.min_picks
    THEN _build_parlay(cfg, PicksOfDate(date)) ELSE None

\* a step is the period of the date, gone through to its end
PeriodStepOf(date) ==
    /\ pc = "loop"
    /\ idx < Len(date_order)
    /\ idx' = idx + 1
    /\ date = date_order[idx + 1]
    /\ date \notin model_fails

\* the step leaves bankroll and ledger alone and appends the snapshot of
\* the date with the bankroll as it was
ZeroBetPeriod(date) ==
    /\ bets_history' = bets_history
    /\ current_bankroll' = current_bankroll
    /\ daily_balance' = Append(daily_balance,
                               [date |-> date, balance |-> current_bankroll])

\* C16: in a period where the stake computed for the parlay is <= 0 or
\* above the current bankroll no bet is placed: bankroll and ledger are
\* left as they are, and the period still gets its snapshot, with the
\* unchanged bankroll
C16_RefusedStake ==
    [][ \A date \in Dates :
          (/\ PeriodStepOf(date)
           /\ ~IsNone(ParlayOfDate(date))
           /\ LET stake == _calculate_stake(cfg, current_bankroll,
                                            ParlayOfDate(date)[1])
              IN  RLe(stake, Zero) \/ RLt(current_bankroll, stake))
          => ZeroBetPeriod(date) ]_vars

\* the period just gone through had a parlay and a stake of 0, after a
\* period with a bet
C16_Witness ==
    /\ pc = "loop"
    /\ idx >= 2
    /\ date_order[idx] \notin model_fails
    /\ ~IsNone(ParlayOfDate(date_order[idx]))
    /\ RLe(_calculate_stake(cfg, current_bankroll,
                            ParlayOfDate(date_order[idx])[1]), Zero)
    /\ Len(bets_history) = 1
    /\ daily_balance[Len(daily_balance)]
           = [date |-> date_order[idx], balance |-> current_bankroll]

\* no combination of the accepted picks of the date, of a size from
\* min_picks to max_picks, has its odds and its probability, the products
\* of those of its legs, within the thresholds
NoValidCombination(date) ==
    \A S \in SUBSET (1..Len(PicksOfDate(date))) :
        LET combo == Pick(PicksOfDate(date), Ascending(S))
        IN  \/ Cardinality(S) < cfg.min_picks
            \/ Cardinality(S) > cfg.max_picks
            \/ RLt(ProdOf(combo, "odds"), cfg.min_total_odds)
            \/ RLt(cfg.max_total_odds, ProdOf(combo, "odds"))
            \/ RLt(ProdOf(combo, "predicted_probability"),
                   cfg.min_combined_probability)

\* the balance of the last snapshot, initial_bankroll when there is none
LastBalance ==
    IF daily_balance = <<>> THEN cfg.initial_bankroll
    ELSE daily_balance[Len(daily_balance)].balance

\* C17: in a period with fewer than min_picks accepted picks, or for which
\* the search finds no valid parlay, the ledger gains no entry, the bankroll
\* is unchanged and the snapshot of the period has the balance of the
\* snapshot before it, initial_bankroll for the first
C17_ZeroBetDay ==
    [][ \A date \in Dates :
          (/\ PeriodStepOf(date)
           /\ \/ Len(PicksOfDate(date)) < cfg.min_picks
              \/ NoValidCombination(date))
          => /\ ZeroBetPeriod(date)
             /\ daily_balance'[Len(daily_balance')].balance = LastBalance ]_vars

\* the period just gone through had min_picks accepted picks or more and no
\* valid parlay, after another period
C17_Witness ==
    /\ pc = "loop"
    /\ idx >= 2
    /\ date_order[idx] \notin model_fails
    /\ Len(PicksOfDate(date_order[idx])) >= cfg.min_picks
    /\ NoValidCombination(date_order[idx])
    /\ Len(daily_balance) >= 2
    /\ daily_balance[Len(daily_balance)].date = date_order[idx]
    /\ daily_balance[Len(daily_balance)].balance
           = daily_balance[Len(daily_balance) - 1].balance

(***************************************************************************)
(* The result of a backtest.                                               *)
(***************************************************************************)
\* C18 (of a run over a table with its 'date' column, which is what has
\* periods): if no bet was placed in any period, run_backtest does not raise but
\* returns a result with the marker 'No bets placed during backtest', with
\* total_bets, wins, losses, win_rate, total_roi, total_profit, max_drawdown
\* and sharpe_ratio all zero and final_bankroll equal to initial_bankroll
C18_NoBetsResult ==
    (pc = "done" /\ historical_data # <<>> /\ bets_history = <<>>) =>
        /\ ~IsNone(result)
        /\ result[1].error = "No bets placed during backtest"
        /\ result[1].total_bets = 0
        /\ result[1].wins = 0
        /\ result[1].losses = 0
        /\ result[1].win_rate = Zero
        /\ result[1].total_roi = Zero
        /\ result[1].total_profit = Zero
        /\ result[1].max_drawdown = Zero
        /\ result[1].sharpe_ratio = Zero
        /\ result[1].final_bankroll = cfg.initial_bankroll

\* a run over two periods or more has ended without a bet
C18_Witness ==
    /\ pc = "done"
    /\ bets_history = <<>>
    /\ Len(daily_balance) >= 2
    /\ ~IsNone(result)

\* the configuration of the engine is malformed
Malformed(c) ==
    \/ c.min_picks > c.max_picks
    \/ RLe(c.max_total_odds, c.min_total_odds)

\* C19: a malformed configuration (min_picks > max_picks, or minimum odds
\* at or above the maximum) is fatal and fails fast: it is raised before the
\* simulation starts, so that no period is processed, no snapshot and no
\* ledger entry is appended and no metrics are returned
C19_FailFast ==
    Malformed(cfg) =>
        /\ pc = "idle"
        /\ idx = 0
        /\ daily_balance = <<>>
        /\ bets_history = <<>>
        /\ IsNone(result)

\* what a run has left in its engine and returned
OutcomeOfRun ==
    [bets_history |-> bets_history,
     daily_balance |-> daily_balance,
     result |-> result[1]]

EntriesUpTo(entries, d) ==
    LET NotAfter(entry) == entry.date <= d
    IN  SelectSeq(entries, NotAfter)

\* C21: no future information leaks backward: for two tables that agree on
\* all matches dated d or before and differ only in matches dated after d, the
\* ledger entries and the daily snapshots for the dates up to d are identical
C21_NoLeak ==
    (pc = "done" /\ ~IsNone(cutoff)) =>
        /\ EntriesUpTo(bets_history, cutoff[1])
             = EntriesUpTo(first_run[1].bets_history, cutoff[1])
        /\ EntriesUpTo(daily_balance, cutoff[1])
             = EntriesUpTo(first_run[1].daily_balance, cutoff[1])

\* the same for the runs whose periods came in ascending order of date (read
\* off the snapshots of the run over the whole table)
C21_NoLeakWhenSorted ==
    (pc = "done" /\ ~IsNone(cutoff)
       /\ \A i \in 1..Len(first_run[1].daily_balance) :
            \A j \in 1..Len(first_run[1].daily_balance) :
               i < j => first_run[1].daily_balance[i].date
                          <= first_run[1].daily_balance[j].date) =>
        /\ EntriesUpTo(bets_history, cutoff[1])
             = EntriesUpTo(first_run[1].bets_history, cutoff[1])
        /\ EntriesUpTo(daily_balance, cutoff[1])
             = EntriesUpTo(first_run[1].daily_balance, cutoff[1])

(***************************************************************************)
(* The backtest against the components of src/betting.                     *)
(***************************************************************************)
\* the league of a pick of the backtest: test_backtest.py gives every row of
\* its table the league 'Test League', and the engine carries the row's
\* fields into the pick unread
LeagueOfPick(pick) == "Test League"

\* the picks keep to the thresholds of the evaluator and to the cap of the
\* diversifier: probability and edge (in percent) at or above the criteria of
\* the run, odds within [min_odds, max_odds] and at most max_picks_per_league
\* picks of a league
WithinSelectorThresholds(criteria, thresholds, picks) ==
    /\ \A i \in 1..Len(picks) :
          /\ RLe(criteria.min_probability, picks[i].predicted_probability)
          /\ RLe(criteria.min_edge, RMul(picks[i].edge, R(100, 1)))
          /\ RLe(thresholds.min_odds, picks[i].odds)
          /\ RLe(picks[i].odds, thresholds.max_odds)
    /\ \A league \in {LeagueOfPick(picks[i]) : i \in 1..Len(picks)} :
          Cardinality({i \in 1..Len(picks) : LeagueOfPick(picks[i]) = league})
              <= thresholds.max_picks_per_league

\* C22: in each backtest period the picks handed to parlay construction are
\* the output of the edge evaluator followed by the diversifier: every pick
\* has p >= min_probability, edge >= min_edge and min_odds <= odds <= max_odds,
\* and no league contributes more than max_picks_per_league picks, whatever
\* configuration file the thresholds are read from
C22_SelectorOutput ==
    [][ \A date \in Dates :
          PeriodStepOf(date) =>
              \A config \in ConfigFiles :
                  WithinSelectorThresholds(selection_criteria, config.picks,
                                           PicksOfDate(date)) ]_vars

\* the part of it that the engine keeps: probability and edge
C22_ProbabilityAndEdge ==
    [][ \A date \in Dates :
          PeriodStepOf(date) =>
              \A i \in 1..Len(PicksOfDate(date)) :
                  /\ RLe(selection_criteria.min_probability,
                         PicksOfDate(date)[i].predicted_probability)
                  /\ RLe(selection_criteria.min_edge,
                         RMul(PicksOfDate(date)[i].edge, R(100, 1))) ]_vars

\* a pick of the backtest as the parlay builder reads it: the league of its
\* row, and the two teams of its match, which no other match has
AsBuilderPick(pick) ==
    [match_id |-> pick.match_id,
     league |-> LeagueOfPick(pick),
     home_team |-> <<"home", pick.match_id>>,
     away_team |-> <<"away", pick.match_id>>,
     odds |-> pick.odds,
     predicted_probability |-> pick.predicted_probability,
     edge |-> pick.edge,
     has_value |-> TRUE]

AsBuilderPicks(picks) == [i \in 1..Len(picks) |-> AsBuilderPick(picks[i])]

\* the match ids of the legs of a parlay, in the parlay's order
LegsOf(parlay) == [i \in 1..Len(parlay.picks) |-> parlay.picks[i].match_id]

\* the parlay of the engine and the one of the builder are None together,
\* or have the same legs, combined probability, edge and expected value
SameParlay(engine_parlay, builder_parlay) ==
    /\ IsNone(engine_parlay) <=> IsNone(builder_parlay)
    /\ ~IsNone(engine_parlay) /\ ~IsNone(builder_parlay) =>
          /\ LegsOf(engine_parlay[1]) = LegsOf(builder_parlay[1])
          /\ engine_parlay[1].combined_probability
                = builder_parlay[1].combined_probability
          /\ engine_parlay[1].edge = builder_parlay[1].edge
          /\ engine_parlay[1].expected_value = builder_parlay[1].expected_value

\* C23: for the same picks and the same parlay thresholds, the parlay the
\* backtest builds (_build_parlay) is the one build_best_parlay returns: the
\* same legs, with combined_probability the product of the legs'
\* probabilities times the correlation factor, edge = combined_probability -
\* 1/total_odds and expected_value = 100 (combined_probability (total_odds - 1)
\* - (1 - combined_probability)), and None in the same cases
C23_SameParlayAsBuilder ==
    pc = "loop" =>
        \A i \in 1..Len(date_order) :
            date_order[i] \notin model_fails =>
                SameParlay(ParlayOfDate(date_order[i]),
                           build_best_parlay(cfg,
                               AsBuilderPicks(PicksOfDate(date_order[i]))))

\* the stake the engine computes in the period it is about to go through
\* is the one the calculator computes from the bankroll section of the
\* configuration file
StakeAsSizer(config, date) ==
    LET parlay == ParlayOfDate(date)[1]
    IN  _calculate_stake(cfg, current_bankroll, parlay)
            = calculate_kelly_stake_improved(config.bankroll,
                  parlay.combined_probability, parlay.total_odds,
                  current_bankroll)

\* C24: in each backtest period with a valid parlay the stake placed equals
\* the stake of the Stake Sizer (calculate_kelly_stake) for the parlay's
\* combined probability, its total odds and the current bankroll, the one
\* after the settlement of the period before, under the configured
\* kelly_fraction, max_bet_pct and edge floor, whatever configuration file
\* they are read from
C24_StakeAsSizer ==
    (/\ pc = "loop"
     /\ idx < Len(date_order)
     /\ date_order[idx + 1] \notin model_fails
     /\ ~IsNone(ParlayOfDate(date_order[idx + 1]))) =>
        \A config \in ConfigFiles : StakeAsSizer(config, date_order[idx + 1])

\* the part of it that the engine keeps: the stake is computed from the
\* bankroll as the settlement of the period before left it, and the ledger
\* entry of the period records it
C24_CurrentBankroll ==
    [][ \A date \in Dates :
          (PeriodStepOf(date) /\ Len(bets_history') = Len(bets_history) + 1) =>
              LET entry == bets_history'[Len(bets_history')]
              IN  /\ entry.bankroll_before = current_bankroll
                  /\ entry.stake = _calculate_stake(cfg, current_bankroll,
                                                    ParlayOfDate(date)[1])
                  /\ daily_balance # <<>> =>
                        current_bankroll
                            = daily_balance[Len(daily_balance)].balance ]_vars

(***************************************************************************)
(* The warnings of the recommended stake.                                  *)
(***************************************************************************)
\* the cap was binding on the Kelly stake of the call: the fractional Kelly
\* stake, before the cap, was above bankroll * max_bet_percentage / 100
CapWasBinding ==
    RLt(RMul(call.bankroll, RDiv(bankroll_config.max_bet_percentage, R(100, 1))),
        RMul(call.bankroll,
             RMul(kelly_criterion(call.probability, call.odds),
                  bankroll_config.kelly_fraction)))

HasWarning(warning) ==
    \E i \in 1..Len(call.ret.warnings) : call.ret.warnings[i] = warning

\* C25: calculate_recommended_stake returns a recommendation whose warnings
\* contain a cap warning whenever the max-bet cap was binding on the Kelly
\* stake and a minimum-bankroll warning whenever the bankroll is below the
\* configured minimum; recommended_stake is reported in both cases
C25_Warnings ==
    call.op = "calculate_recommended_stake" =>
        /\ "recommended_stake" \in DOMAIN call.ret
        /\ (call.strategy = "kelly" /\ CapWasBinding)
               => HasWarning("exceeds max bet")
        /\ RLt(call.bankroll, bankroll_config.min_bankroll)
               => HasWarning("below minimum")

\* the part of it that the calculator keeps: the warning of the minimum
\* bankroll, and the recommended stake, never above the maximum bet
C25_MinimumBankrollWarning ==
    call.op = "calculate_recommended_stake" =>
        /\ "recommended_stake" \in DOMAIN call.ret
        /\ RLe(call.ret.recommended_stake,
               RMul(call.bankroll,
                    RDiv(bankroll_config.max_bet_percentage, R(100, 1))))
        /\ RLt(call.bankroll, bankroll_config.min_bankroll)
               <=> HasWarning("below minimum")

(***************************************************************************)
(* Append-only series, and the state between two periods.                  *)
(***************************************************************************)
IsPrefix(s, t) == Len(s) <= Len(t) /\ SubSeq(t, 1, Len(s)) = s

\* the state can be resumed from: the bankroll is the balance of the last
\* snapshot and, if there is a bet, the bankroll_after of the last entry
Resumable(bankroll, bets, snapshots) ==
    /\ snapshots # <<>> => bankroll = snapshots[Len(snapshots)].balance
    /\ bets # <<>> => bankroll = bets[Len(bets)].bankroll_after

\* C26: the bet ledger and the daily snapshot series are append-only: after
\* each period each of them has the series of before as an unmodified prefix,
\* and between any two periods the state is valid and resumable: the current
\* bankroll is the balance of the last snapshot and, if any bet exists, the
\* bankroll_after of the last ledger entry
C26_AppendOnly ==
    [][ /\ IsPrefix(bets_history, bets_history')
        /\ IsPrefix(daily_balance, daily_balance')
        /\ Resumable(current_bankroll', bets_history', daily_balance') ]_vars

\* between two periods, after a period with a bet and a later one without
C26_Witness ==
    /\ pc = "loop"
    /\ idx < Len(date_order)
    /\ Len(daily_balance) >= 2
    /\ Len(bets_history) >= 1
    /\ bets_history[Len(bets_history)].date
          # daily_balance[Len(daily_balance)].date
    /\ bets_history[Len(bets_history)].profit # Zero

(***************************************************************************)
(* The bankroll never goes below zero.                                     *)
(***************************************************************************)
\* C27: after any sequence of backtest periods from a positive initial
\* bankroll the current bankroll is never negative, and every ledger entry
\* has 0 < stake <= bankroll_before
C27_BankrollNotNegative ==
    RLt(Zero, cfg.initial_bankroll) =>
        /\ RLe(Zero, current_bankroll)
        /\ \A i \in 1..Len(bets_history) :
              /\ RLt(Zero, bets_history[i].stake)
              /\ RLe(bets_history[i].stake, bets_history[i].bankroll_before)

\* two bets were lost one after the other, and a period had a stake of 0
C27_Witness ==
    /\ Len(bets_history) >= 2
    /\ \A i \in 1..Len(bets_history) : bets_history[i].result = "lost"
    /\ Len(daily_balance) > Len(bets_history)
    /\ RLt(current_bankroll, cfg.initial_bankroll)

(***************************************************************************)
(* A second call on the same engine.                                       *)
(***************************************************************************)
\* C28: the result of run_backtest depends only on its arguments and on the
\* constructor's configuration, not on earlier calls: a second call on the
\* same engine starts from initial_bankroll with an empty ledger and an empty
\* snapshot series and returns what the same call on a fresh engine returns,
\* which is what the first call returned
C28_SecondCallAsFresh ==
    ~IsNone(first_run) =>
        /\ (pc = "loop" /\ idx = 0) =>
              /\ current_bankroll = cfg.initial_bankroll
              /\ bets_history = <<>>
              /\ daily_balance = <<>>
        /\ pc = "done" => result[1] = first_run[1].result

(***************************************************************************)
(* The settlement of the bets of the database.                             *)
(***************************************************************************)
\* the picks of the bet that are left without a result
PicksWithoutResult(bet_id) ==
    { i \in DOMAIN db_picks :
        /\ db_picks[i].bet_id = bet_id
        /\ db_picks[i].result \notin {Some("won"), Some("lost")} }

\* every pick of the bet is 'won'
EveryPickWon(bet_id) ==
    \A i \in DOMAIN db_picks :
        db_picks[i].bet_id = bet_id => db_picks[i].result = Some("won")

\* C29: after any sequence of update_pick_result calls (resolve_pending_picks
\* makes them too), a bet is 'settled' exactly when none of its picks is
\* left without a result; a settled bet is 'won' if and only if every one of
\* its picks is 'won' and 'lost' otherwise, its profit_loss is
\* stake * (total_odds - 1) when won and -stake when lost, and its
\* bankroll_after is bankroll_before + profit_loss
C29_Settlement ==
    \A bet_id \in DOMAIN db_bets :
        LET bet == db_bets[bet_id]
            stake == bet.stake[1]
            total_odds == bet.total_odds[1]
            bankroll_before == bet.bankroll_before[1]
            profit_loss == IF EveryPickWon(bet_id)
                           THEN RMul(stake, RSub(total_odds, One))
                           ELSE RNeg(stake)
        IN  /\ bet.status \in {"pending", "settled"}
            /\ bet.status = "settled" <=> PicksWithoutResult(bet_id) = {}
            /\ bet.status = "settled" =>
                 /\ bet.result = Some(IF EveryPickWon(bet_id) THEN "won"
                                      ELSE "lost")
                 /\ bet.profit_loss = Some(profit_loss)
                 /\ bet.bankroll_after = Some(RAdd(bankroll_before,
                                                   profit_loss))

\* a bet of two picks is settled as lost with one of its picks won, and
\* another bet is still pending with one of its two picks decided
C29_Witness ==
    \E b1, b2 \in DOMAIN db_bets :
        /\ db_bets[b1].status = "settled"
        /\ db_bets[b1].result = Some("lost")
        /\ \E i, j \in DOMAIN db_picks :
              /\ db_picks[i].bet_id = b1 /\ db_picks[j].bet_id = b1
              /\ db_picks[i].result = Some("won")
              /\ db_picks[j].result = Some("lost")
        /\ db_bets[b2].status = "pending"
        /\ \E i, j \in DOMAIN db_picks :
              /\ db_picks[i].bet_id = b2 /\ db_picks[j].bet_id = b2
              /\ db_picks[i].result = Some("won")
              /\ IsNone(db_picks[j].result)

(***************************************************************************)
(* The pool of API keys.                                                   *)
(***************************************************************************)
\* the key has more than 10 recorded remaining requests, or no record yet
Available(key) ==
    LET key_hash == _get_key_hash(key)
    IN  key_hash \in DOMAIN usage_data
            => usage_data[key_hash].requests_remaining > 10

\* the key is recorded with 10 or fewer remaining requests
Exhausted(key) ==
    LET key_hash == _get_key_hash(key)
    IN  /\ key_hash \in DOMAIN usage_data
        /\ usage_data[key_hash].requests_remaining <= 10

\* C30: for a non-empty pool and any sequence of update_usage, rotate_key
\* and get_current_key calls, current_index is at least 0 and less than the
\* number of keys; get_current_key returns a key of the pool, one with more
\* than 10 recorded remaining requests or without a record whenever the
\* pool has such a key, and an exhausted one only when every key of the
\* pool is recorded with 10 or fewer
C30_KeyOfThePool ==
    /\ current_index \in 0..(Len(api_keys) - 1)
    /\ key_call.op = "get_current_key" =>
         /\ \E i \in DOMAIN api_keys : key_call.ret = api_keys[i]
         /\ (\E i \in DOMAIN api_keys : Available(api_keys[i]))
                => Available(key_call.ret)
         /\ Exhausted(key_call.ret)
                => \A i \in DOMAIN api_keys : Exhausted(api_keys[i])

\* get_current_key went past an exhausted key, rotating, and returned a key
\* with requests left, in a pool of three keys
C30_Witness ==
    /\ key_call.op = "get_current_key"
    /\ key_call.attempts >= 1
    /\ Len(api_keys) = 3
    /\ Available(key_call.ret)
    /\ _get_key_hash(key_call.ret) \in DOMAIN usage_data
    /\ \E i \in DOMAIN api_keys : Exhausted(api_keys[i])

=============================================================================
